---- MODULE Spec2Model ----
(***************************************************************************)
(* Upload coordination and deduplication engine of video-platform.        *)
(*                                                                         *)
(* Three stores are modelled:                                              *)
(*   MS (MySQL via GORM)  : contents, userContents, fileMetas              *)
(*   CS (Redis)           : tombstones, csChunks, locks                    *)
(*   BS (local filesystem): chunkDirs (TempPath/{user}/{hash}),            *)
(*                          scratch ({index}.part), chunkTmp               *)
(*                          ({index}.part.tmp), blobs (BasePath/{hash}),   *)
(*                          blobTmp (BasePath/{hash}.tmp), orphans (files  *)
(*                          that lost their name while a request has them  *)
(*                          open)                                          *)
(*                                                                         *)
(* The server runs one goroutine per request.  Every handler of            *)
(* internal/logic is a sequence of steps, one per Redis round trip, MySQL  *)
(* transaction or filesystem call, and the steps of the requests in        *)
(* flight interleave freely: the only exclusion is the one the Redis lock  *)
(* keys and the MySQL row locks give.                                      *)
(***************************************************************************)
EXTENDS Integers, Sequences, FiniteSets, TLC

\* ------------------------------------------------------------------ domains

\* callers (verified user ids) and content hashes offered to the handlers
Users == {1, 2}
Hashes == {"h1"}

\* UserContent.Status values
UPLOADING == 0
COMPLETED == 1
CANCELLED == -1

\* bounds of the model
MaxOps == 8
MaxIdx == 1
MaxTotal == 2
MaxProcs == 2
MaxSetup == 2
MaxTTL == 2

\* chunk_index is an unchecked int of the request: negative values included
ChunkIdx == (-1)..MaxIdx
\* total_chunks is an int with `binding:"required"`: the handler refuses zero
\* only, a negative number reaches logic.MergeChunks
Totals == {-1} \cup (1..MaxTotal)
\* chunk payloads: the empty one is refused by WriteChunk
Payloads == {<<>>, <<1>>, <<2, 3>>}
\* content_id is a uint with `binding:"required"`: zero is rejected by the handler
ContentIds == 1..(Cardinality(Users) * Cardinality(Hashes))
\* the requests in flight
ProcIds == 1..MaxProcs
\* transient store failures a request can meet: the Exists or the HGet of
\* CheckTombstone, the HGet of GetTombstoneContentID, io.Copy and out.Close
\* of the store, and one of the statements of its MySQL transaction (an
\* error of the server, or the deadline of the handler's context)
InitFaults == {"none", "cs_check", "cs_hget", "cs_cid",
               "ms_find", "ms_create", "ms_row", "ms_write", "ms_commit"}
ChunkFaults == {"none", "cs_check", "cs_hget", "bs_copy"}
MergeFaults == {"none", "bs_copy", "bs_close", "ms_find", "ms_meta", "ms_rows", "ms_commit"}
FastFaults == {"none", "ms_find", "ms_ref", "ms_row", "ms_write", "ms_commit"}
CancelFaults == {"none", "ms_update"}
DeleteFaults == {"none", "ms_rows", "ms_find", "ms_ref", "ms_read", "ms_meta", "ms_commit"}

VARIABLES
    contents,      \* MS contents rows, committed, by primary key: id = index
    userContents,  \* MS user_contents rows, committed, by primary key
    fileMetas,     \* MS file_metas: hash -> [cid, path, size, refCount]
    tombstones,    \* CS tombstone:{user}:{hash} -> [cid, status, ttl]
    csChunks,      \* CS chunks:{user}:{hash} -> set of indices
    locks,         \* CS lock:{key} -> [owner token, remaining ttl]
    chunkDirs,     \* BS the chunk directories <<user, hash>> that exist
    scratch,       \* BS <<user, hash, index>> -> bytes of {index}.part
    chunkTmp,      \* BS <<user, hash, index>> -> bytes of {index}.part.tmp
    blobs,         \* BS hash -> bytes of BasePath/{hash}
    blobTmp,       \* BS hash -> bytes of BasePath/{hash}.tmp
    orphans,       \* BS id -> bytes of an unlinked file that is still read
    procs,         \* the requests in flight: arguments, position, open files
    res,           \* the answer given in the last step, if it gave one
    nops           \* number of requests started

vars == <<contents, userContents, fileMetas, tombstones, csChunks, locks,
          chunkDirs, scratch, chunkTmp, blobs, blobTmp, orphans, procs, res, nops>>

msVars == <<contents, userContents, fileMetas>>
csVars == <<tombstones, csChunks, locks>>
bsVars == <<chunkDirs, scratch, chunkTmp, blobs, blobTmp, orphans>>

\* ------------------------------------------------------------------ helpers

Put(f, k, v) == [x \in (DOMAIN f) \cup {k} |-> IF x = k THEN v ELSE f[x]]
Del(f, k) == [x \in (DOMAIN f) \ {k} |-> f[x]]
Empty == [x \in {} |-> 0]

Min(S) == CHOOSE x \in S : \A y \in S : x <= y

RECURSIVE SetToSortedSeq(_)
SetToSortedSeq(S) ==
    IF S = {} THEN <<>>
    ELSE LET m == CHOOSE x \in S : \A y \in S : x <= y
         IN <<m>> \o SetToSortedSeq(S \ {m})

SeqToSet(s) == {s[i] : i \in 1..Len(s)}

\* the stores as a request finds them when it arrives
Stores ==
    [contents |-> contents, userContents |-> userContents, fileMetas |-> fileMetas,
     tombstones |-> tombstones, csChunks |-> csChunks, locks |-> locks,
     chunkDirs |-> chunkDirs, scratch |-> scratch, chunkTmp |-> chunkTmp,
     blobs |-> blobs, blobTmp |-> blobTmp]

NoSnapshot ==
    [contents |-> <<>>, userContents |-> <<>>, fileMetas |-> Empty,
     tombstones |-> Empty, csChunks |-> Empty, locks |-> Empty,
     chunkDirs |-> {}, scratch |-> Empty, chunkTmp |-> Empty,
     blobs |-> Empty, blobTmp |-> Empty]
NoRange == [kind |-> "none", first |-> 0, last |-> 0]
NoPrev == [op |-> "none", user |-> 0, hash |-> "", status |-> ""]

\* the record of a request: its arguments (cid, idx, total, payload, range,
\* fault), its position (pc, i, off, the open files), and what it returns
\* (status, out, size, the range fields).  `tok` is the value NewLock draws,
\* ct*, fm*, uc* and `row` are the locks and the writes of its open MySQL
\* transaction, `dirFd` tells that the directory it has open is still the
\* one of that name,
\* `solo` tells that no other step ran since the request arrived, `pre`
\* holds the stores of that moment and `prev` the answer that was given
\* last before the request arrived, when only keys have expired in between
Req(op, u, h) ==
    [op |-> op, user |-> u, hash |-> h, cid |-> 0, idx |-> 0, total |-> 0,
     payload |-> <<>>, range |-> NoRange, fault |-> "none",
     tok |-> 0, solo |-> FALSE, pre |-> NoSnapshot, prev |-> NoPrev,
     pc |-> "", newContent |-> FALSE, newRow |-> FALSE,
     ctLock |-> 0, ctGap |-> FALSE, ctNew |-> 0,
     fmLock |-> FALSE, fmGap |-> FALSE, fmOp |-> "none",
     ucLock |-> {}, ucGap |-> FALSE, ucNew |-> 0, row |-> 0, dirFd |-> FALSE,
     i |-> 0, off |-> 0, fdAt |-> "none", fdId |-> 0,
     srcAt |-> "none", srcId |-> 0, srcOff |-> 0, lim |-> 0, names |-> {},
     status |-> "", out |-> <<>>, size |-> 0,
     rangeStart |-> 0, rangeEnd |-> 0, rangeLength |-> 0, bsRead |-> FALSE]

NoRes == Req("none", 0, "")

\* ------------------------------------------------------------------ BS (store.LocalStore)

FileExists(h) == h \in DOMAIN blobs

\* a chunk list read from the CS accelerator instead of the filesystem
GetUploadedChunksFromCS(u, h) ==
    SetToSortedSeq(IF <<u, h>> \in DOMAIN csChunks THEN csChunks[<<u, h>>] ELSE {})

\* the indices N for which a regular file N.part is listed, ascending; the
\* files N.part.tmp are not listed, a missing directory lists nothing
GetUploadedChunks(u, h) ==
    SetToSortedSeq({k[3] : k \in {x \in DOMAIN scratch : x[1] = u /\ x[2] = h}})

\* the entries of the chunk directory of (u, h): <<"part", N>> for N.part and
\* <<"ptmp", N>> for N.part.tmp
DirEntries(u, h) ==
    {<<"part", k[3]>> : k \in {x \in DOMAIN scratch : x[1] = u /\ x[2] = h}}
    \cup {<<"ptmp", k[3]>> : k \in {x \in DOMAIN chunkTmp : x[1] = u /\ x[2] = h}}

\* write(2) of `data` at file offset `off`: a gap left by a truncation reads
\* as zeros; a write of no byte leaves the file as it is
WriteAt(bytes, off, data) ==
    IF Len(data) = 0 THEN bytes
    ELSE LET n == IF off + Len(data) > Len(bytes) THEN off + Len(data) ELSE Len(bytes)
         IN [k \in 1..n |-> IF k > off /\ k <= off + Len(data) THEN data[k - off]
                            ELSE IF k <= Len(bytes) THEN bytes[k]
                            ELSE 0]

\* a merge loop that walks the indices downwards
SrcKeyDescending(r) ==
    IF r.op = "merge" THEN <<r.user, r.hash, r.total - 1 - r.i>> ELSE r.hash

\* the name a request reads from: chunk i of its session for a merge, the
\* blob for a download
SrcKey(r) == IF r.op = "merge" THEN <<r.user, r.hash, r.i>> ELSE r.hash

\* the name a request writes to: {index}.part(.tmp) for an uploadChunk, the
\* blob (or its .tmp) for a merge
DstKey(r) == IF r.op = "chunk" THEN <<r.user, r.hash, r.idx>> ELSE r.hash

\* the bytes of the file a request has open for reading
SrcBytes(r) ==
    IF r.srcAt = "part" THEN scratch[SrcKey(r)]
    ELSE IF r.srcAt = "blob" THEN blobs[SrcKey(r)]
    ELSE orphans[r.srcId]

\* unlink(2), or rename(2) over a name: the file named `k` in `at` ("part",
\* "ptmp", "blob" or "btmp"), holding `bytes`, loses its name.  Requests that
\* have it open keep the file: it stays readable while one of them reads it
Detach(ps, orphs, at, k, bytes) ==
    LET rd == {q \in DOMAIN ps : ps[q].srcAt = at /\ SrcKey(ps[q]) = k}
        wr == {q \in DOMAIN ps : ps[q].fdAt = at /\ DstKey(ps[q]) = k}
        id == Min((1..(Cardinality(DOMAIN orphs) + 1)) \ DOMAIN orphs)
    IN [procs |-> [q \in DOMAIN ps |->
                      IF q \in rd THEN [ps[q] EXCEPT !.srcAt = "orphan", !.srcId = id]
                      ELSE IF q \in wr
                      THEN (IF rd = {} THEN [ps[q] EXCEPT !.fdAt = "gone"]
                            ELSE [ps[q] EXCEPT !.fdAt = "orphan", !.fdId = id])
                      ELSE ps[q]],
        orphans |-> IF rd = {} THEN orphs ELSE Put(orphs, id, bytes)]

\* rename(2) of name `k` from `from` to `to`: the descriptors open on the
\* file follow it
Follow(ps, from, to, k) ==
    [q \in DOMAIN ps |->
        IF ps[q].fdAt = from /\ DstKey(ps[q]) = k
        THEN [ps[q] EXCEPT !.fdAt = to] ELSE ps[q]]

\* close(2) of read descriptors: an unlinked file that nobody reads any more
\* is dropped, what is still written to it is lost
Reap(ps, orphs) ==
    LET live == {ps[q].srcId : q \in {x \in DOMAIN ps : ps[x].srcAt = "orphan"}}
    IN [procs |-> [q \in DOMAIN ps |->
                      IF ps[q].fdAt = "orphan" /\ ps[q].fdId \notin live
                      THEN [ps[q] EXCEPT !.fdAt = "gone", !.fdId = 0] ELSE ps[q]],
        orphans |-> [x \in (DOMAIN orphs) \cap live |-> orphs[x]]]

\* ------------------------------------------------------------------ CS tombstones (redis)

\* CheckTombstone, first round trip: Exists.  A failure ("cs_check") returns
\* (false, "", err)
CheckTombstoneExists(ts, u, h, failed) ==
    [exists |-> ~failed /\ <<u, h>> \in DOMAIN ts, status |-> "", err |-> failed]

\* CheckTombstone, second round trip: HGet of the status field of a key that
\* Exists has seen.  A failure ("cs_hget"), or a key deleted in between,
\* returns (true, "", err)
CheckTombstoneStatus(ts, u, h, failed) ==
    IF failed \/ <<u, h>> \notin DOMAIN ts
    THEN [exists |-> TRUE, status |-> "", err |-> TRUE]
    ELSE [exists |-> TRUE, status |-> ts[<<u, h>>].status, err |-> FALSE]

\* CheckTombstone when nothing runs between its two round trips
CheckTombstone(ts, u, h, fault) ==
    LET e == CheckTombstoneExists(ts, u, h, fault = "cs_check")
    IN IF e.exists THEN CheckTombstoneStatus(ts, u, h, fault = "cs_hget") ELSE e

\* GetTombstoneContentID: 0 stands for the error return
GetTombstoneContentID(ts, u, h, failed) ==
    IF failed \/ <<u, h>> \notin DOMAIN ts THEN 0 ELSE ts[<<u, h>>].cid

\* HSet of the tombstone fields: a key that exists keeps the expiry it has
CreateTombstoneNoExpire(ts, u, h, cid, status) ==
    Put(ts, <<u, h>>, [cid |-> cid, status |-> status,
                       ttl |-> IF <<u, h>> \in DOMAIN ts THEN ts[<<u, h>>].ttl ELSE FALSE])

\* Expire(key, TombstoneTTL): no effect on a key that is not there
ExpireTombstoneKey(ts, u, h) ==
    IF <<u, h>> \in DOMAIN ts THEN [ts EXCEPT ![<<u, h>>].ttl = TRUE] ELSE ts

DeleteTombstone(ts, u, h) == Del(ts, <<u, h>>)

\* SAdd then Expire(ChunkTTL); the expiry of the chunk sets is not modelled
RecordUploadedChunk(cc, u, h, i) ==
    Put(cc, <<u, h>>, (IF <<u, h>> \in DOMAIN cc THEN cc[<<u, h>>] ELSE {}) \cup {i})

ClearUploadedChunks(cc, u, h) == Del(cc, <<u, h>>)

\* ------------------------------------------------------------------ CS locks (redis)

LockKey(op, u, h) == <<op, u, h>>

\* the SETNX of an attempt of lock.Lock finds the key absent
LockFree(op, u, h) == LockKey(op, u, h) \notin DOMAIN locks

\* SETNX key value: the key is won only when it is absent
TryLock(lk, key, owner, ttl) ==
    IF key \in DOMAIN lk THEN lk ELSE Put(lk, key, [owner |-> owner, ttl |-> ttl])

\* the test of both Lua scripts: redis.call("get", KEYS[1]) == ARGV[1]
HoldsLock(lk, key, owner) == key \in DOMAIN lk /\ lk[key].owner = owner

\* a release that deletes the key whoever holds it
UnlockAnyOwner(lk, key, owner) == Del(lk, key)

\* the Lua script of Unlock: the key is deleted only when it holds the caller's value
Unlock(lk, key, owner) ==
    IF HoldsLock(lk, key, owner) THEN Del(lk, key) ELSE lk

\* the Lua script of Extend: pexpire only when the key holds the caller's value
Extend(lk, key, owner, ttl) ==
    IF HoldsLock(lk, key, owner) THEN [lk EXCEPT ![key].ttl = ttl] ELSE lk

\* what Unlock and Extend return: nil, or ErrLockNotHeld when the script returned 0
LockResult(lk, key, owner) == IF HoldsLock(lk, key, owner) THEN "ok" ELSE "not_held"

\* ------------------------------------------------------------------ MS (db)

\* a primary key that names no row: the row was deleted, or the INSERT that
\* drew the key is not committed or was rolled back
NoContent == [owner |-> 0, hash |-> ""]
NoUserContent == [user |-> 0, cid |-> 0, hash |-> "", status |-> 0]

\* First(): the matching row with the smallest primary key, 0 for ErrRecordNotFound
GetUserContentByHash(ucs, u, h) ==
    LET m == {i \in 1..Len(ucs) : ucs[i].user = u /\ ucs[i].hash = h}
    IN IF m = {} THEN 0 ELSE Min(m)

FirstUserContent(ucs, u, cid) ==
    LET m == {i \in 1..Len(ucs) : ucs[i].user = u /\ ucs[i].cid = cid}
    IN IF m = {} THEN 0 ELSE Min(m)

\* an upsert that never finds the Content it looks for
FirstContentNone(cs, u, h) == 0

\* First(&ct) by (source_hash, owner_id)
FirstContent(cs, u, h) ==
    LET m == {i \in 1..Len(cs) : cs[i].owner = u /\ cs[i].hash = h}
    IN IF m = {} THEN 0 ELSE Min(m)

GetFileMeta(fms, h) == h \in DOMAIN fms

\* the rows WHERE user_id = u AND content_id = cid
RowsOf(ucs, u, cid) == {i \in 1..Len(ucs) : ucs[i].user = u /\ ucs[i].cid = cid}

\* the rows WHERE user_id = u AND file_hash = h
RowsOfHash(ucs, u, h) == {i \in 1..Len(ucs) : ucs[i].user = u /\ ucs[i].hash = h}

\* GREATEST(ref_count - 1, 0)
Greatest(rc) == IF rc - 1 > 0 THEN rc - 1 ELSE 0

\* tx.Rollback, and the end of every transaction: the locks are released and
\* the writes that were not committed are dropped; a primary key that an
\* INSERT drew stays used
Rollback(r) ==
    [r EXCEPT !.ctLock = 0, !.ctGap = FALSE, !.ctNew = 0,
              !.fmLock = FALSE, !.fmGap = FALSE, !.fmOp = "none",
              !.ucLock = {}, !.ucGap = FALSE, !.ucNew = 0, !.row = 0]

\* the error return of a transaction: rolled back, the handler has its error.
\* MergeChunks deletes the merged file before it returns
TxError(r) ==
    [Rollback(r) EXCEPT !.status = "db_failed",
                        !.pc = IF r.op = "merge" THEN "delblob" ELSE "unlock"]

\* what tx.Commit of CreateOrUpdateUserFileUploading makes visible: the
\* Content and the UserContent it created, status 0 on the row it updated
CreateOrUpdateUserFileUploading(cs, ucs, r) ==
    [contents |-> IF r.ctNew # 0
                  THEN [cs EXCEPT ![r.ctNew] = [owner |-> r.user, hash |-> r.hash]]
                  ELSE cs,
     userContents |->
        [i \in 1..Len(ucs) |->
            IF i = r.ucNew
            THEN [user |-> r.user, cid |-> r.cid, hash |-> r.hash, status |-> UPLOADING]
            ELSE IF i \in r.ucLock THEN [ucs[i] EXCEPT !.status = UPLOADING]
            ELSE ucs[i]]]

\* what tx.Commit of CreateUserFileForFastUpload makes visible: ref_count + 1
\* on the FileMeta that matched the hash (none is no error), the UserContent
\* created with status 1 or the one found set to status 1
CreateUserFileForFastUpload(ucs, fms, r) ==
    [fileMetas |-> IF r.fmOp = "inc" THEN [fms EXCEPT ![r.hash].refCount = @ + 1] ELSE fms,
     userContents |->
        [i \in 1..Len(ucs) |->
            IF i = r.ucNew
            THEN [user |-> r.user, cid |-> r.cid, hash |-> r.hash, status |-> COMPLETED]
            ELSE IF i \in r.ucLock THEN [ucs[i] EXCEPT !.status = COMPLETED]
            ELSE ucs[i]]]

\* a merge transaction that writes FileMeta and leaves the UserContent rows
FinishMergeMetaOnly(ucs, fms, r) ==
    [fileMetas |-> IF r.fmOp = "new"
                   THEN Put(fms, r.hash, [cid |-> r.cid, path |-> r.hash,
                                          size |-> r.size, refCount |-> 1])
                   ELSE IF r.fmOp = "inc" THEN [fms EXCEPT ![r.hash].refCount = @ + 1]
                   ELSE fms,
     userContents |-> ucs]

\* what tx.Commit of FinishMergeAndCreateMeta makes visible: the FileMeta
\* created with ref_count 1 or the one found with ref_count + 1, and status 1
\* with this hash on every UserContent(user, content) the UPDATE matched
FinishMergeAndCreateMeta(ucs, fms, r) ==
    [fileMetas |-> IF r.fmOp = "new"
                   THEN Put(fms, r.hash, [cid |-> r.cid, path |-> r.hash,
                                          size |-> r.size, refCount |-> 1])
                   ELSE IF r.fmOp = "inc" THEN [fms EXCEPT ![r.hash].refCount = @ + 1]
                   ELSE fms,
     userContents |->
        [i \in 1..Len(ucs) |->
            IF i \in r.ucLock THEN [ucs[i] EXCEPT !.status = COMPLETED, !.hash = r.hash]
            ELSE ucs[i]]]

\* a delete that keeps the FileMeta row when ref_count reaches 0
DeleteUserFileKeepMeta(ucs, fms, r) ==
    [fileMetas |-> IF r.fmOp \in {"dec", "del"}
                   THEN [fms EXCEPT ![r.hash].refCount = Greatest(@)]
                   ELSE fms,
     userContents |-> [i \in 1..Len(ucs) |-> IF i \in r.ucLock THEN NoUserContent ELSE ucs[i]]]

\* what tx.Commit of DeleteUserFile makes visible: the rows its DELETE
\* matched are gone, ref_count = GREATEST(ref_count - 1, 0), and the FileMeta
\* is gone when that was 0
DeleteUserFile(ucs, fms, r) ==
    [fileMetas |-> IF r.fmOp = "del" THEN Del(fms, r.hash)
                   ELSE IF r.fmOp = "dec" THEN [fms EXCEPT ![r.hash].refCount = Greatest(@)]
                   ELSE fms,
     userContents |-> [i \in 1..Len(ucs) |-> IF i \in r.ucLock THEN NoUserContent ELSE ucs[i]]]

\* cancel: only rows still at status 0 change
UpdateUserContentStatus(ucs, u, cid, status) ==
    [i \in 1..Len(ucs) |->
        IF ucs[i].user = u /\ ucs[i].cid = cid /\ ucs[i].status = UPLOADING
        THEN [ucs[i] EXCEPT !.status = status]
        ELSE ucs[i]]

\* InnoDB, REPEATABLE READ.  A transaction keeps until it ends: the row it
\* read FOR UPDATE, updated, deleted or inserted; and for a locking read or a
\* write that goes through a secondary index, every entry it passed and the
\* gaps around them, or the gap where the entries would be.  A gap lock stops
\* the INSERTs of the others into the gap, whoever their user is, and no
\* other gap lock.  A read that is not FOR UPDATE takes no lock and sees
\* committed rows only.  The statements that search contents by owner_id and
\* user_contents by user_id go through the index on that column, where the
\* entries are in the order of (owner_id, id) and (user_id, id); an INSERT
\* puts its entry behind the entries of its user.

\* the values with an entry in the index on contents.owner_id, for an INSERT
\* of request p: those of committed rows and of rows the others inserted
OwnerKeys(p) ==
    ({contents[i].owner : i \in 1..Len(contents)}
     \cup {procs[x].user : x \in {y \in DOMAIN procs \ {p} : procs[y].ctNew # 0}}) \ {0}

\* the same for the index on user_contents.user_id
UserKeys(p) ==
    ({userContents[i].user : i \in 1..Len(userContents)}
     \cup {procs[x].user : x \in {y \in DOMAIN procs \ {p} : procs[y].ucNew # 0}}) \ {0}

\* a statement went through all the entries of value b, or found none: it
\* holds every gap from the entry before them to the entry behind them; the
\* new entry of value a goes into one of these
InGap(keys, b, a) ==
    IF a = b THEN TRUE
    ELSE IF a < b THEN ~\E k \in keys : a < k /\ k < b
    ELSE ~\E k \in keys : b < k /\ k <= a

\* a statement with LIMIT 1 stopped at an entry of value b: it holds the
\* gap before the entries of b only
BeforeKey(keys, b, a) == a < b /\ ~\E k \in keys : a < k /\ k < b

\* the INSERT into contents of request p waits for request q: q holds the gap
\* since its First(&ct) found nothing, or up to the Content it found
ContentInsertWaits(p, q) ==
    LET r == procs[p]
        o == procs[q]
    IN /\ q # p
       /\ r.op = "init" /\ r.pc = "ucfind" /\ r.ctNew # 0
       /\ \/ o.ctGap /\ InGap(OwnerKeys(p), o.user, r.user)
          \/ o.op = "init" /\ o.ctLock # 0 /\ BeforeKey(OwnerKeys(p), o.user, r.user)

\* the INSERT into user_contents of request p waits for request q: q holds
\* the gap since its DELETE or UPDATE by user_id
RowInsertWaits(p, q) ==
    LET r == procs[p]
        o == procs[q]
    IN /\ q # p
       /\ r.op \in {"init", "fast"} /\ r.pc = "commit" /\ r.ucNew # 0
       /\ o.ucGap /\ InGap(UserKeys(p), o.user, r.user)

\* the INSERT into file_metas of request p waits for request q: q holds the
\* row of the hash, or a gap of the primary key since it found no FileMeta;
\* no other hash of the model lies between two hashes
MetaInsertWaits(p, q) ==
    LET r == procs[p]
        o == procs[q]
    IN /\ q # p
       /\ r.op = "merge" /\ r.pc = "fmins"
       /\ \/ o.fmLock /\ o.hash = r.hash
          \/ o.fmGap /\ ~GetFileMeta(fileMetas, r.hash)

\* request q holds the contents row `id`: it found it by the primary key or
\* as the first of its owner and hash, it passed it on the way there, or it
\* has inserted it
HoldsContent(q, id) ==
    LET o == procs[q]
    IN /\ id # 0
       /\ \/ o.ctLock = id
          \/ o.ctNew = id /\ ~\E x \in DOMAIN procs : ContentInsertWaits(q, x)
          \/ /\ o.op = "init"
             /\ id \in 1..Len(contents)
             /\ contents[id].owner = o.user
             /\ o.ctGap \/ id < o.ctLock

\* request q holds the file_metas row of `h`
HoldsMeta(q, h) == procs[q].fmLock /\ procs[q].hash = h

\* request q holds the user_contents row `i`: it has written it by its id, or
\* its DELETE or UPDATE by user_id passed it
HoldsRow(q, i) ==
    \/ i \in procs[q].ucLock
    \/ procs[q].ucGap /\ userContents[i].user = procs[q].user

\* request q holds an entry of user `u` in user_contents, a row it has
\* inserted for that user included
HoldsRows(q, u) ==
    \/ \E i \in 1..Len(userContents) : userContents[i].user = u /\ HoldsRow(q, i)
    \/ /\ procs[q].ucNew # 0
       /\ procs[q].user = u
       /\ ~\E x \in DOMAIN procs : RowInsertWaits(q, x)

\* the next statement of request p waits for a lock of request q
WaitsFor(p, q) ==
    LET r == procs[p]
        o == procs[q]
        ct == FirstContent(contents, r.user, r.hash)
    IN /\ q # p
       /\ CASE r.op = "init" /\ r.pc = "tx" ->
                   \/ \E i \in 1..Len(contents) :
                         /\ contents[i].owner = r.user
                         /\ ct = 0 \/ i <= ct
                         /\ HoldsContent(q, i)
                   \/ /\ o.ctNew # 0 /\ o.user = r.user
                      /\ ct = 0 \/ o.ctNew < ct
                      /\ HoldsContent(q, o.ctNew)
            [] r.op = "init" /\ r.pc = "ucfind" -> ContentInsertWaits(p, q)
            [] r.op = "fast" /\ r.pc = "tx" -> HoldsContent(q, r.cid)
            [] r.op = "fast" /\ r.pc = "fmref" -> HoldsMeta(q, r.hash)
            [] r.op \in {"init", "fast"} /\ r.pc = "ucupd" -> HoldsRow(q, r.row)
            [] r.op \in {"init", "fast"} /\ r.pc = "commit" -> RowInsertWaits(p, q)
            [] r.op = "merge" /\ r.pc = "db" -> HoldsMeta(q, r.hash)
            [] r.op = "merge" /\ r.pc = "fmins" -> MetaInsertWaits(p, q)
            [] r.op \in {"merge", "cancel"} /\ r.pc \in {"ucupd", "update"} ->
                   HoldsRows(q, r.user)
            [] r.op = "delete" /\ r.pc = "tx" -> HoldsRows(q, r.user)
            [] r.op = "delete" /\ r.pc = "fmfind" -> HoldsMeta(q, r.hash)
            [] OTHER -> FALSE

\* the statement of request p has to wait
Blocked(p) == \E q \in DOMAIN procs : WaitsFor(p, q)

\* the requests that S waits for, directly or through others
RECURSIVE WaitsOn(_, _)
WaitsOn(S, n) ==
    IF n = 0 THEN S
    ELSE WaitsOn(S \cup {q \in DOMAIN procs : \E s \in S : WaitsFor(s, q)}, n - 1)

\* request p waits in a cycle: InnoDB will roll one of the cycle back
Deadlocked(p) ==
    \E q \in DOMAIN procs : WaitsFor(p, q) /\ p \in WaitsOn({q}, Cardinality(DOMAIN procs))

\* ------------------------------------------------------------------ logic

findMissingChunks(uploaded, total) ==
    SetToSortedSeq({i \in 0..(total - 1) : i \notin SeqToSet(uploaded)})

\* LocalStore.DeleteFile: os.Remove of BasePath/{hash}, a missing file is no error
StoreDeleteFile(bl, h) == Del(bl, h)

\* the path LocalStore gives a merged file: BasePath/{hash}
getFilePath(h) == h

\* a tombstone check that knows completed sessions only
CheckBeforeUploadChunkCompletedOnly(ct) ==
    IF ct.err THEN "ok"
    ELSE IF ct.exists /\ ct.status = "completed" THEN "already_completed"
    ELSE "ok"

\* CheckBeforeUploadChunk on what CheckTombstone returned: a failed read does
\* not stop the upload
CheckBeforeUploadChunk(ct) ==
    IF ct.err THEN "ok"
    ELSE IF ct.exists /\ ct.status = "completed" THEN "already_completed"
    ELSE IF ct.exists /\ ct.status = "cancelled" THEN "cancelled"
    ELSE "ok"

\* an idempotency test that is never positive: every upload writes
ChunkNeverUploaded(existing, i) == FALSE

\* the idempotency test of UploadChunk: the index is among the listed chunks
ChunkAlreadyUploaded(existing, i) == i \in SeqToSet(existing)

\* a completeness test that accepts surplus chunk files
ChunkCountAtLeast(uploaded, total) == Len(uploaded) >= total

\* the completeness test of MergeChunks: as many chunk files as total_chunks
ChunkCountOk(uploaded, total) == Len(uploaded) = total

\* ------------------------------------------------------------------ requests

Init ==
    /\ contents = <<>>
    /\ userContents = <<>>
    /\ fileMetas = Empty
    /\ tombstones = Empty
    /\ csChunks = Empty
    /\ locks = Empty
    /\ chunkDirs = {}
    /\ scratch = Empty
    /\ chunkTmp = Empty
    /\ blobs = Empty
    /\ blobTmp = Empty
    /\ orphans = Empty
    /\ procs = Empty
    /\ res = NoRes
    /\ nops = 0

\* no request is in flight
Quiescent == DOMAIN procs = {}

\* a request can be taken: gin starts a goroutine for it
CanArrive == nops < MaxOps /\ DOMAIN procs # ProcIds

FreeSlot == Min(ProcIds \ DOMAIN procs)

\* another request or the environment has taken a step: the requests in
\* flight no longer run alone
Disturbed(ps) ==
    [q \in DOMAIN ps |-> [ps[q] EXCEPT !.solo = FALSE, !.pre = NoSnapshot]]

\* the answer that was given last, as long as nothing but expiries of keys
\* has happened since
LastAnswer ==
    IF res.op = "none" THEN res.prev
    ELSE [op |-> res.op, user |-> res.user, hash |-> res.hash, status |-> res.status]

\* the record of a request that arrives now
Arrive(rq) ==
    [rq EXCEPT !.tok = nops + 1,
               !.solo = Quiescent,
               !.pre = IF Quiescent THEN Stores ELSE NoSnapshot,
               !.prev = LastAnswer]

\* the first step of a request: it is taken and its goroutine goes to `pc`
Enter(rq, pc) ==
    /\ CanArrive
    /\ nops' = nops + 1
    /\ procs' = Put(Disturbed(procs), FreeSlot, [Arrive(rq) EXCEPT !.pc = pc])
    /\ res' = NoRes

\* a request that is answered at its first step
Refuse(rq, status) ==
    /\ nops < MaxOps
    /\ nops' = nops + 1
    /\ procs' = Disturbed(procs)
    /\ res' = [Arrive(rq) EXCEPT !.status = status, !.pc = "done"]

\* request p is at position pc of handler op
At(p, op, pc) == p \in DOMAIN procs /\ procs[p].op = op /\ procs[p].pc = pc

\* a step of request p that gives no answer
Goto(p, r) ==
    /\ procs' = [procs EXCEPT ![p] = r]
    /\ res' = NoRes
    /\ nops' = nops

\* a step after which the requests in flight are `ps`
GotoIn(ps) ==
    /\ procs' = ps
    /\ res' = NoRes
    /\ nops' = nops

\* the step in which request p returns `r` to its caller
Return(p, r) ==
    /\ procs' = Del(procs, p)
    /\ res' = [r EXCEPT !.pc = "done"]
    /\ nops' = nops

\* write(2) of `data` through the descriptor request r writes with, at its
\* offset: the bytes land in the file the descriptor is on, whatever name the
\* file has by now, and are lost with a file nobody can reach any more
FdWrite(r, data) ==
    LET k == DstKey(r)
    IN [chunkTmp |-> IF r.fdAt = "ptmp"
                     THEN [chunkTmp EXCEPT ![k] = WriteAt(@, r.off, data)] ELSE chunkTmp,
        scratch |-> IF r.fdAt = "part"
                    THEN [scratch EXCEPT ![k] = WriteAt(@, r.off, data)] ELSE scratch,
        blobTmp |-> IF r.fdAt = "btmp"
                    THEN [blobTmp EXCEPT ![k] = WriteAt(@, r.off, data)] ELSE blobTmp,
        blobs |-> IF r.fdAt = "blob"
                  THEN [blobs EXCEPT ![k] = WriteAt(@, r.off, data)] ELSE blobs,
        orphans |-> IF r.fdAt = "orphan"
                    THEN [orphans EXCEPT ![r.fdId] = WriteAt(@, r.off, data)] ELSE orphans]

\* ------------------------------------------------------------------ POST /upload/init

\* CheckTombstone: Exists
InitExists(u, h, f) ==
    LET rq == [Req("init", u, h) EXCEPT !.fault = f]
        ct == CheckTombstoneExists(tombstones, u, h, f = "cs_check")
    IN /\ Enter(rq, IF ct.exists THEN "hget" ELSE "row")
       /\ UNCHANGED <<msVars, csVars, bsVars>>

\* CheckTombstone: HGet status.  On an error exists is true and the status
\* empty: neither tombstone branch nor the MS probe runs
InitHGet(p) ==
    LET r == procs[p]
        ct == CheckTombstoneStatus(tombstones, r.user, r.hash, r.fault = "cs_hget")
    IN /\ At(p, "init", "hget")
       /\ Goto(p, [r EXCEPT !.pc = IF ct.status = "completed" THEN "cid"
                                   ELSE IF ct.status = "cancelled" THEN "tdel"
                                   ELSE "lock"])
       /\ UNCHANGED <<msVars, csVars, bsVars>>

\* GetTombstoneContentID
InitCid(p) ==
    LET r == procs[p]
        cid == GetTombstoneContentID(tombstones, r.user, r.hash, r.fault = "cs_cid")
    IN /\ At(p, "init", "cid")
       /\ Goto(p, [r EXCEPT !.cid = cid, !.pc = IF cid > 0 THEN "stat" ELSE "lock"])
       /\ UNCHANGED <<msVars, csVars, bsVars>>

\* Store.FileExists after a completed tombstone: fast upload, or the
\* tombstone is to be deleted
InitStat(p) ==
    LET r == procs[p]
    IN /\ At(p, "init", "stat")
       /\ IF FileExists(r.hash)
          THEN Return(p, [r EXCEPT !.status = "fast_upload"])
          ELSE Goto(p, [r EXCEPT !.pc = "tdel"])
       /\ UNCHANGED <<msVars, csVars, bsVars>>

\* DeleteTombstone of a stale completed or of a cancelled tombstone
InitDeleteTombstone(p) ==
    LET r == procs[p]
    IN /\ At(p, "init", "tdel")
       /\ tombstones' = DeleteTombstone(tombstones, r.user, r.hash)
       /\ Goto(p, [r EXCEPT !.pc = "lock"])
       /\ UNCHANGED <<msVars, csChunks, locks, bsVars>>

\* the MS probe when no tombstone was seen: GetUserContentByHash
InitRow(p) ==
    LET r == procs[p]
        row == GetUserContentByHash(userContents, r.user, r.hash)
    IN /\ At(p, "init", "row")
       /\ IF row # 0 /\ userContents[row].status = COMPLETED
          THEN Goto(p, [r EXCEPT !.cid = userContents[row].cid, !.pc = "meta"])
          ELSE Goto(p, [r EXCEPT !.pc = "lock"])
       /\ UNCHANGED <<msVars, csVars, bsVars>>

\* the MS probe: GetFileMeta
InitMeta(p) ==
    LET r == procs[p]
    IN /\ At(p, "init", "meta")
       /\ Goto(p, [r EXCEPT !.pc = IF GetFileMeta(fileMetas, r.hash) /\ fileMetas[r.hash].path # ""
                                   THEN "stat2" ELSE "lock"])
       /\ UNCHANGED <<msVars, csVars, bsVars>>

\* the MS probe: Store.FileExists
InitStat2(p) ==
    LET r == procs[p]
    IN /\ At(p, "init", "stat2")
       /\ Goto(p, [r EXCEPT !.pc = IF FileExists(r.hash) THEN "hset" ELSE "lock"])
       /\ UNCHANGED <<msVars, csVars, bsVars>>

\* the MS probe: CreateTombstoneNoExpire, then fast upload
InitHSet(p) ==
    LET r == procs[p]
    IN /\ At(p, "init", "hset")
       /\ tombstones' = CreateTombstoneNoExpire(tombstones, r.user, r.hash, r.cid, "completed")
       /\ Return(p, [r EXCEPT !.status = "fast_upload"])
       /\ UNCHANGED <<msVars, csChunks, locks, bsVars>>

\* lock.Lock: an attempt of the SETNX loop wins upload:init:{user}:{hash}
InitLock(p) ==
    LET r == procs[p]
    IN /\ At(p, "init", "lock")
       /\ LockFree("init", r.user, r.hash)
       /\ locks' = TryLock(locks, LockKey("init", r.user, r.hash), r.tok, MaxTTL)
       /\ Goto(p, [r EXCEPT !.pc = "tx"])
       /\ UNCHANGED <<msVars, tombstones, csChunks, bsVars>>

\* lock.Lock: every attempt found the key held
InitLockFail(p) ==
    LET r == procs[p]
    IN /\ At(p, "init", "lock")
       /\ ~LockFree("init", r.user, r.hash)
       /\ Return(p, [r EXCEPT !.status = "lock_failed"])
       /\ UNCHANGED <<msVars, csVars, bsVars>>

\* a statement of request p can run: nothing it needs is locked by another
\* transaction.  The failure `f` needs no lock
Ready(p, f) == procs[p].fault = f \/ ~Blocked(p)

\* InnoDB finds a cycle of waiting transactions and rolls one of them back:
\* its statement returns the deadlock error
TxDeadlock(p) ==
    /\ p \in DOMAIN procs
    /\ Deadlocked(p)
    /\ Goto(p, TxError(procs[p]))
    /\ UNCHANGED <<msVars, csVars, bsVars>>

\* CreateOrUpdateUserFileUploading: First(&ct) by (source_hash, owner_id) FOR
\* UPDATE locks the Content it finds, or the gap when there is none
InitFind(p) ==
    LET r == procs[p]
        ct == FirstContent(contents, r.user, r.hash)
    IN /\ At(p, "init", "tx")
       /\ Ready(p, "ms_find")
       /\ Goto(p, IF r.fault = "ms_find" THEN TxError(r)
                  ELSE IF ct # 0 THEN [r EXCEPT !.cid = ct, !.ctLock = ct, !.pc = "ucfind"]
                  ELSE [r EXCEPT !.ctGap = TRUE, !.pc = "ctins"])
       /\ UNCHANGED <<msVars, csVars, bsVars>>

\* CreateOrUpdateUserFileUploading: Create(&ct) draws the next content id; the
\* INSERT then waits for the transactions that hold the gap
InitCreate(p) ==
    LET r == procs[p]
        id == Len(contents) + 1
    IN /\ At(p, "init", "ctins")
       /\ IF r.fault = "ms_create"
          THEN /\ Goto(p, TxError(r))
               /\ UNCHANGED contents
          ELSE /\ contents' = Append(contents, NoContent)
               /\ Goto(p, [r EXCEPT !.cid = id, !.ctNew = id, !.newContent = TRUE,
                                    !.pc = "ucfind"])
       /\ UNCHANGED <<userContents, fileMetas, csVars, bsVars>>

\* CreateOrUpdateUserFileUploading: First(&uc) by (user_id, ct.ID), a read
\* without lock; it runs when the INSERT of the Content is through
InitFindRow(p) ==
    LET r == procs[p]
        row == FirstUserContent(userContents, r.user, r.cid)
    IN /\ At(p, "init", "ucfind")
       /\ Ready(p, "ms_row")
       /\ Goto(p, IF r.fault = "ms_row" THEN TxError(r)
                  ELSE [r EXCEPT !.row = row, !.pc = IF row = 0 THEN "ucins" ELSE "ucupd"])
       /\ UNCHANGED <<msVars, csVars, bsVars>>

\* CreateOrUpdateUserFileUploading: Create(&uc) draws the next id
InitCreateRow(p) ==
    LET r == procs[p]
    IN /\ At(p, "init", "ucins")
       /\ IF r.fault = "ms_write"
          THEN /\ Goto(p, TxError(r))
               /\ UNCHANGED userContents
          ELSE /\ userContents' = Append(userContents, NoUserContent)
               /\ Goto(p, [r EXCEPT !.ucNew = Len(userContents) + 1, !.newRow = TRUE,
                                    !.pc = "commit"])
       /\ UNCHANGED <<contents, fileMetas, csVars, bsVars>>

\* CreateOrUpdateUserFileUploading: Updates(status 0) of the row that was
\* read, by its id; a row deleted since is no error
InitUpdateRow(p) ==
    LET r == procs[p]
    IN /\ At(p, "init", "ucupd")
       /\ Ready(p, "ms_write")
       /\ Goto(p, IF r.fault = "ms_write" THEN TxError(r)
                  ELSE [r EXCEPT !.ucLock = IF userContents[r.row].user # 0
                                            THEN {r.row} ELSE {},
                                 !.pc = "commit"])
       /\ UNCHANGED <<msVars, csVars, bsVars>>

\* CreateOrUpdateUserFileUploading: tx.Commit, when the INSERT of the row is
\* through
InitCommit(p) ==
    LET r == procs[p]
        up == CreateOrUpdateUserFileUploading(contents, userContents, r)
    IN /\ At(p, "init", "commit")
       /\ Ready(p, "ms_commit")
       /\ IF r.fault = "ms_commit"
          THEN /\ Goto(p, TxError(r))
               /\ UNCHANGED <<contents, userContents>>
          ELSE /\ contents' = up.contents
               /\ userContents' = up.userContents
               /\ Goto(p, [Rollback(r) EXCEPT !.pc = "list"])
       /\ UNCHANGED <<fileMetas, csVars, bsVars>>

\* Store.GetUploadedChunks: the resume list is read from the filesystem
InitList(p) ==
    LET r == procs[p]
        chunks == GetUploadedChunks(r.user, r.hash)
    IN /\ At(p, "init", "list")
       /\ Goto(p, [r EXCEPT !.out = chunks,
                            !.status = IF Len(chunks) > 0 THEN "resumable" ELSE "new",
                            !.pc = "unlock"])
       /\ UNCHANGED <<msVars, csVars, bsVars>>

\* the deferred lock.Unlock of a handler, then its return
HandlerUnlock(p) ==
    LET r == procs[p]
    IN /\ p \in DOMAIN procs
       /\ r.pc = "unlock"
       /\ locks' = Unlock(locks, LockKey(r.op, r.user, r.hash), r.tok)
       /\ Return(p, r)
       /\ UNCHANGED <<msVars, tombstones, csChunks, bsVars>>

\* ------------------------------------------------------------------ POST /upload/chunk

\* CheckBeforeUploadChunk, CheckTombstone: Exists (content_id and
\* total_chunks of the request are not read)
ChunkExists(u, h, i, payload, f) ==
    LET rq == [Req("chunk", u, h) EXCEPT !.idx = i, !.payload = payload, !.fault = f]
        ct == CheckTombstoneExists(tombstones, u, h, f = "cs_check")
    IN /\ Enter(rq, IF ct.exists THEN "hget" ELSE "list")
       /\ UNCHANGED <<msVars, csVars, bsVars>>

\* CheckBeforeUploadChunk, CheckTombstone: HGet status
ChunkHGet(p) ==
    LET r == procs[p]
        ct == CheckTombstoneStatus(tombstones, r.user, r.hash, r.fault = "cs_hget")
        check == CheckBeforeUploadChunk(ct)
    IN /\ At(p, "chunk", "hget")
       /\ IF check # "ok"
          THEN Return(p, [r EXCEPT !.status = check])
          ELSE Goto(p, [r EXCEPT !.pc = "list"])
       /\ UNCHANGED <<msVars, csVars, bsVars>>

\* Store.GetUploadedChunks and the idempotency test
ChunkList(p) ==
    LET r == procs[p]
        existing == GetUploadedChunks(r.user, r.hash)
    IN /\ At(p, "chunk", "list")
       /\ IF ChunkAlreadyUploaded(existing, r.idx)
          THEN Return(p, [r EXCEPT !.status = "chunk_exists"])
          ELSE Goto(p, [r EXCEPT !.pc = "mkdir"])
       /\ UNCHANGED <<msVars, csVars, bsVars>>

\* WriteChunk: os.MkdirAll(chunkDir)
ChunkMkdir(p) ==
    LET r == procs[p]
    IN /\ At(p, "chunk", "mkdir")
       /\ chunkDirs' = chunkDirs \cup {<<r.user, r.hash>>}
       /\ Goto(p, [r EXCEPT !.pc = "create"])
       /\ UNCHANGED <<msVars, csVars, scratch, chunkTmp, blobs, blobTmp, orphans>>

\* WriteChunk: os.Create(tmpPath).  A .tmp that exists is truncated and the
\* descriptors already open on it stay on it; without the directory the call
\* fails
ChunkCreate(p) ==
    LET r == procs[p]
        k == <<r.user, r.hash, r.idx>>
    IN /\ At(p, "chunk", "create")
       /\ IF <<r.user, r.hash>> \notin chunkDirs
          THEN /\ Return(p, [r EXCEPT !.status = "write_failed"])
               /\ UNCHANGED chunkTmp
          ELSE /\ chunkTmp' = Put(chunkTmp, k, <<>>)
               /\ Goto(p, [r EXCEPT !.fdAt = "ptmp", !.off = 0, !.pc = "copy"])
       /\ UNCHANGED <<msVars, csVars, chunkDirs, scratch, blobs, blobTmp, orphans>>

\* WriteChunk: io.Copy, one write of the loop
ChunkCopy(p) ==
    LET r == procs[p]
        w == FdWrite(r, <<r.payload[r.off + 1]>>)
    IN /\ At(p, "chunk", "copy")
       /\ r.fault # "bs_copy"
       /\ r.off < Len(r.payload)
       /\ chunkTmp' = w.chunkTmp
       /\ scratch' = w.scratch
       /\ orphans' = w.orphans
       /\ Goto(p, [r EXCEPT !.off = r.off + 1])
       /\ UNCHANGED <<msVars, csVars, chunkDirs, blobs, blobTmp>>

\* WriteChunk: f.Close, then os.Rename(tmpPath, chunkPath).  The file that
\* had the name {index}.part loses it; without a .tmp the call fails
ChunkRename(p) ==
    LET r == procs[p]
        k == <<r.user, r.hash, r.idx>>
        closed == [procs EXCEPT ![p].fdAt = "none"]
        d == IF k \in DOMAIN scratch
             THEN Detach(closed, orphans, "part", k, scratch[k])
             ELSE [procs |-> closed, orphans |-> orphans]
    IN /\ At(p, "chunk", "copy")
       /\ r.fault # "bs_copy"
       /\ r.off = Len(r.payload)
       /\ Len(r.payload) > 0
       /\ IF k \in DOMAIN chunkTmp
          THEN /\ scratch' = Put(scratch, k, chunkTmp[k])
               /\ chunkTmp' = Del(chunkTmp, k)
               /\ orphans' = d.orphans
               /\ GotoIn([Follow(d.procs, "ptmp", "part", k) EXCEPT ![p].pc = "record"])
          ELSE /\ GotoIn([closed EXCEPT ![p].pc = "rmtmp"])
               /\ UNCHANGED <<scratch, chunkTmp, orphans>>
       /\ UNCHANGED <<msVars, csVars, chunkDirs, blobs, blobTmp>>

\* WriteChunk: f.Close and os.Remove(tmpPath) after a failed io.Copy, an
\* empty body or a failed rename; the error return
ChunkRemove(p) ==
    LET r == procs[p]
        k == <<r.user, r.hash, r.idx>>
        closed == [procs EXCEPT ![p].fdAt = "none"]
        d == IF k \in DOMAIN chunkTmp
             THEN Detach(closed, orphans, "ptmp", k, chunkTmp[k])
             ELSE [procs |-> closed, orphans |-> orphans]
    IN /\ p \in DOMAIN procs
       /\ r.op = "chunk"
       /\ IF r.pc = "copy"
          THEN (IF r.fault = "bs_copy" THEN TRUE ELSE Len(r.payload) = 0)
          ELSE r.pc = "rmtmp"
       /\ chunkTmp' = Del(chunkTmp, k)
       /\ orphans' = d.orphans
       /\ procs' = Del(d.procs, p)
       /\ res' = [r EXCEPT !.status = "write_failed", !.fdAt = "none", !.pc = "done"]
       /\ nops' = nops
       /\ UNCHANGED <<msVars, csVars, chunkDirs, scratch, blobs, blobTmp>>

\* RecordUploadedChunk (its errors are logged only), then the nil return
ChunkRecord(p) ==
    LET r == procs[p]
    IN /\ At(p, "chunk", "record")
       /\ csChunks' = RecordUploadedChunk(csChunks, r.user, r.hash, r.idx)
       /\ Return(p, [r EXCEPT !.status = "chunk_uploaded"])
       /\ UNCHANGED <<msVars, tombstones, locks, bsVars>>

\* ------------------------------------------------------------------ POST /upload/merge

\* lock.Lock: an attempt of the SETNX loop wins upload:merge:{user}:{hash}
\* (file_size of the request is not read)
MergeLock(u, cid, h, total, f) ==
    LET rq == [Req("merge", u, h) EXCEPT !.cid = cid, !.total = total, !.fault = f]
    IN /\ LockFree("merge", u, h)
       /\ Enter(rq, "list")
       /\ locks' = TryLock(locks, LockKey("merge", u, h), nops + 1, MaxTTL)
       /\ UNCHANGED <<msVars, tombstones, csChunks, bsVars>>

\* lock.Lock: every attempt found the key held
MergeLockFail(u, cid, h, total, f) ==
    LET rq == [Req("merge", u, h) EXCEPT !.cid = cid, !.total = total, !.fault = f]
    IN /\ ~LockFree("merge", u, h)
       /\ Refuse(rq, "lock_failed")
       /\ UNCHANGED <<msVars, csVars, bsVars>>

\* Store.GetUploadedChunks and the completeness test
MergeList(p) ==
    LET r == procs[p]
        uploaded == GetUploadedChunks(r.user, r.hash)
    IN /\ At(p, "merge", "list")
       /\ IF ~ChunkCountOk(uploaded, r.total)
          THEN Goto(p, [r EXCEPT !.status = "missing_chunks",
                                 !.out = findMissingChunks(uploaded, r.total),
                                 !.pc = "unlock"])
          ELSE Goto(p, [r EXCEPT !.pc = "create"])
       /\ UNCHANGED <<msVars, csVars, bsVars>>

\* Store.MergeChunks: os.Create(tmpDest).  A {hash}.tmp that exists is
\* truncated and the descriptors already open on it stay on it
MergeCreate(p) ==
    LET r == procs[p]
    IN /\ At(p, "merge", "create")
       /\ blobTmp' = Put(blobTmp, r.hash, <<>>)
       /\ Goto(p, [r EXCEPT !.fdAt = "btmp", !.off = 0, !.i = 0, !.size = 0,
                            !.pc = IF r.total > 0 THEN "open" ELSE "rename"])
       /\ UNCHANGED <<msVars, csVars, chunkDirs, scratch, chunkTmp, blobs, orphans>>

\* Store.MergeChunks: os.Open of chunk i; a missing chunk ends the loop
MergeOpen(p) ==
    LET r == procs[p]
        k == SrcKey(r)
    IN /\ At(p, "merge", "open")
       /\ IF k \in DOMAIN scratch
          THEN Goto(p, [r EXCEPT !.srcAt = "part", !.srcOff = 0, !.pc = "copy"])
          ELSE Goto(p, [r EXCEPT !.pc = "rmtmp"])
       /\ UNCHANGED <<msVars, csVars, bsVars>>

\* Store.MergeChunks: io.Copy(out, pf), one read and write of the loop; at
\* the end of the chunk pf.Close and the next round.  A failed write ends
\* the merge
MergeCopy(p) ==
    LET r == procs[p]
        src == SrcBytes(r)
        w == FdWrite(r, <<src[r.srcOff + 1]>>)
        shut == Reap([procs EXCEPT ![p].srcAt = "none", ![p].srcId = 0, ![p].srcOff = 0,
                                   ![p].i = IF r.fault = "bs_copy" THEN r.i ELSE r.i + 1,
                                   ![p].pc = IF r.fault = "bs_copy" THEN "rmtmp"
                                             ELSE IF r.i + 1 < r.total THEN "open"
                                             ELSE "rename"],
                     orphans)
    IN /\ At(p, "merge", "copy")
       /\ IF r.fault # "bs_copy" /\ r.srcOff < Len(src)
          THEN /\ blobTmp' = w.blobTmp
               /\ blobs' = w.blobs
               /\ orphans' = w.orphans
               /\ Goto(p, [r EXCEPT !.off = r.off + 1, !.srcOff = r.srcOff + 1,
                                    !.size = r.size + 1])
          ELSE /\ orphans' = shut.orphans
               /\ GotoIn(shut.procs)
               /\ UNCHANGED <<blobTmp, blobs>>
       /\ UNCHANGED <<msVars, csVars, chunkDirs, scratch, chunkTmp>>

\* Store.MergeChunks: out.Close, then os.Rename(tmpDest, destPath).  The file
\* that had the name {hash} loses it; without a {hash}.tmp the call fails
MergeRename(p) ==
    LET r == procs[p]
        h == r.hash
        closed == [procs EXCEPT ![p].fdAt = "none"]
        d == IF h \in DOMAIN blobs
             THEN Detach(closed, orphans, "blob", h, blobs[h])
             ELSE [procs |-> closed, orphans |-> orphans]
    IN /\ At(p, "merge", "rename")
       /\ IF r.fault # "bs_close" /\ h \in DOMAIN blobTmp
          THEN /\ blobs' = Put(blobs, h, blobTmp[h])
               /\ blobTmp' = Del(blobTmp, h)
               /\ orphans' = d.orphans
               /\ GotoIn([Follow(d.procs, "btmp", "blob", h) EXCEPT ![p].pc = "rm1"])
          ELSE /\ GotoIn([closed EXCEPT ![p].pc = "rmtmp"])
               /\ UNCHANGED <<blobs, blobTmp, orphans>>
       /\ UNCHANGED <<msVars, csVars, chunkDirs, scratch, chunkTmp>>

\* Store.MergeChunks: out.Close and os.Remove(tmpDest) on every error path
MergeRemoveTmp(p) ==
    LET r == procs[p]
        h == r.hash
        closed == [procs EXCEPT ![p].fdAt = "none", ![p].status = "merge_failed",
                                ![p].pc = "unlock"]
        d == IF h \in DOMAIN blobTmp
             THEN Detach(closed, orphans, "btmp", h, blobTmp[h])
             ELSE [procs |-> closed, orphans |-> orphans]
    IN /\ At(p, "merge", "rmtmp")
       /\ blobTmp' = Del(blobTmp, h)
       /\ orphans' = d.orphans
       /\ GotoIn(d.procs)
       /\ UNCHANGED <<msVars, csVars, chunkDirs, scratch, chunkTmp, blobs>>

\* where a handler goes on after Store.CleanupChunks
AfterCleanup(op) == IF op = "merge" THEN "db" ELSE "hset"

\* rmdir(2) of the chunk directory `d`: a descriptor that is open on it stays
\* on a directory without name and without entries
Rmdir(ps, d) ==
    [q \in DOMAIN ps |->
        IF <<ps[q].user, ps[q].hash>> = d THEN [ps[q] EXCEPT !.dirFd = FALSE] ELSE ps[q]]

\* os.RemoveAll(chunkDir): the first Remove(path).  A missing or an empty
\* directory is done with
RemoveAllTry(p) ==
    LET r == procs[p]
        d == <<r.user, r.hash>>
        done == [procs EXCEPT ![p].pc = AfterCleanup(r.op)]
    IN /\ p \in DOMAIN procs
       /\ r.pc = "rm1"
       /\ IF d \notin chunkDirs
          THEN /\ GotoIn(done)
               /\ UNCHANGED chunkDirs
          ELSE IF DirEntries(r.user, r.hash) = {}
          THEN /\ chunkDirs' = chunkDirs \ {d}
               /\ GotoIn(Rmdir(done, d))
          ELSE /\ Goto(p, [r EXCEPT !.pc = "rm2"])
               /\ UNCHANGED chunkDirs
       /\ UNCHANGED <<msVars, csVars, scratch, chunkTmp, blobs, blobTmp, orphans>>

\* os.RemoveAll: unlinkat of the name in its parent, then openDirAt; a
\* missing directory is done with
RemoveAllOpen(p) ==
    LET r == procs[p]
    IN /\ p \in DOMAIN procs
       /\ r.pc = "rm2"
       /\ IF <<r.user, r.hash>> \notin chunkDirs
          THEN Goto(p, [r EXCEPT !.pc = AfterCleanup(r.op)])
          ELSE Goto(p, [r EXCEPT !.dirFd = TRUE, !.pc = "rm2r"])
       /\ UNCHANGED <<msVars, csVars, bsVars>>

\* os.RemoveAll: Readdirnames of the open directory.  On a directory that was
\* removed since it fails with ENOENT and RemoveAll returns nil at once,
\* without the final rmdir
RemoveAllReadDir(p) ==
    LET r == procs[p]
        names == DirEntries(r.user, r.hash)
    IN /\ p \in DOMAIN procs
       /\ r.pc = "rm2r"
       /\ IF ~r.dirFd
          THEN Goto(p, [r EXCEPT !.names = {}, !.pc = AfterCleanup(r.op)])
          ELSE Goto(p, [r EXCEPT !.names = names,
                                 !.pc = IF names = {} THEN "rm4" ELSE "rm3"])
       /\ UNCHANGED <<msVars, csVars, bsVars>>

\* os.RemoveAll: unlinkat of one of the names read, relative to the open
\* directory; a name that is gone, or a directory that was removed since (a
\* new one of that name is another directory), is no error
RemoveAllUnlink(p, n) ==
    LET r == procs[p]
        k == <<r.user, r.hash, n[2]>>
        left == r.names \ {n}
        ps == [procs EXCEPT ![p].names = left,
                            ![p].pc = IF left = {} THEN "rm4" ELSE "rm3"]
        d == IF r.dirFd /\ n[1] = "part" /\ k \in DOMAIN scratch
             THEN Detach(ps, orphans, "part", k, scratch[k])
             ELSE IF r.dirFd /\ n[1] = "ptmp" /\ k \in DOMAIN chunkTmp
             THEN Detach(ps, orphans, "ptmp", k, chunkTmp[k])
             ELSE [procs |-> ps, orphans |-> orphans]
    IN /\ p \in DOMAIN procs
       /\ r.pc = "rm3"
       /\ n \in r.names
       /\ scratch' = IF r.dirFd /\ n[1] = "part" THEN Del(scratch, k) ELSE scratch
       /\ chunkTmp' = IF r.dirFd /\ n[1] = "ptmp" THEN Del(chunkTmp, k) ELSE chunkTmp
       /\ orphans' = d.orphans
       /\ GotoIn(d.procs)
       /\ UNCHANGED <<msVars, csVars, chunkDirs, blobs, blobTmp>>

\* os.RemoveAll: the directory is closed, then unlinkat(AT_REMOVEDIR) of the
\* name in its parent; a directory with an entry stays, and neither caller
\* reads the error
RemoveAllRmdir(p) ==
    LET r == procs[p]
        d == <<r.user, r.hash>>
        done == [procs EXCEPT ![p].names = {}, ![p].dirFd = FALSE,
                              ![p].pc = AfterCleanup(r.op)]
    IN /\ p \in DOMAIN procs
       /\ r.pc = "rm4"
       /\ IF d \in chunkDirs /\ DirEntries(r.user, r.hash) = {}
          THEN /\ chunkDirs' = chunkDirs \ {d}
               /\ GotoIn(Rmdir(done, d))
          ELSE /\ GotoIn(done)
               /\ UNCHANGED chunkDirs
       /\ UNCHANGED <<msVars, csVars, scratch, chunkTmp, blobs, blobTmp, orphans>>

\* FinishMergeAndCreateMeta: First(&fm) FOR UPDATE locks the FileMeta of the
\* hash, or the gap when there is none
MergeFindMeta(p) ==
    LET r == procs[p]
    IN /\ At(p, "merge", "db")
       /\ Ready(p, "ms_find")
       /\ Goto(p, IF r.fault = "ms_find" THEN TxError(r)
                  ELSE IF GetFileMeta(fileMetas, r.hash)
                  THEN [r EXCEPT !.fmLock = TRUE, !.pc = "fmupd"]
                  ELSE [r EXCEPT !.fmGap = TRUE, !.pc = "fmins"])
       /\ UNCHANGED <<msVars, csVars, bsVars>>

\* FinishMergeAndCreateMeta: Create(&fm) with ref_count 1; the primary key is
\* the hash
MergeCreateMeta(p) ==
    LET r == procs[p]
    IN /\ At(p, "merge", "fmins")
       /\ Ready(p, "ms_meta")
       /\ Goto(p, IF r.fault = "ms_meta" \/ GetFileMeta(fileMetas, r.hash) THEN TxError(r)
                  ELSE [r EXCEPT !.fmLock = TRUE, !.fmOp = "new", !.pc = "ucupd"])
       /\ UNCHANGED <<msVars, csVars, bsVars>>

\* FinishMergeAndCreateMeta: ref_count + 1 on the FileMeta that was found
MergeRef(p) ==
    LET r == procs[p]
    IN /\ At(p, "merge", "fmupd")
       /\ Goto(p, IF r.fault = "ms_meta" THEN TxError(r)
                  ELSE [r EXCEPT !.fmOp = "inc", !.pc = "ucupd"])
       /\ UNCHANGED <<msVars, csVars, bsVars>>

\* FinishMergeAndCreateMeta: Updates of the rows WHERE user_id AND content_id
\* locks the rows of the user and the place of further ones
MergeUpdateRows(p) ==
    LET r == procs[p]
    IN /\ At(p, "merge", "ucupd")
       /\ Ready(p, "ms_rows")
       /\ Goto(p, IF r.fault = "ms_rows" THEN TxError(r)
                  ELSE [r EXCEPT !.ucLock = RowsOf(userContents, r.user, r.cid),
                                 !.ucGap = TRUE, !.pc = "commit"])
       /\ UNCHANGED <<msVars, csVars, bsVars>>

\* FinishMergeAndCreateMeta: tx.Commit; a failed transaction changes nothing
MergeCommit(p) ==
    LET r == procs[p]
        fin == FinishMergeAndCreateMeta(userContents, fileMetas, r)
    IN /\ At(p, "merge", "commit")
       /\ IF r.fault = "ms_commit"
          THEN /\ Goto(p, TxError(r))
               /\ UNCHANGED <<userContents, fileMetas>>
          ELSE /\ userContents' = fin.userContents
               /\ fileMetas' = fin.fileMetas
               /\ Goto(p, [Rollback(r) EXCEPT !.pc = "clear"])
       /\ UNCHANGED <<contents, csVars, bsVars>>

\* Store.DeleteFile(hash) after the failed transaction
MergeDeleteFile(p) ==
    LET r == procs[p]
        h == r.hash
        ps == [procs EXCEPT ![p].status = "db_failed", ![p].pc = "unlock"]
        d == IF h \in DOMAIN blobs
             THEN Detach(ps, orphans, "blob", h, blobs[h])
             ELSE [procs |-> ps, orphans |-> orphans]
    IN /\ At(p, "merge", "delblob")
       /\ blobs' = StoreDeleteFile(blobs, h)
       /\ orphans' = d.orphans
       /\ GotoIn(d.procs)
       /\ UNCHANGED <<msVars, csVars, chunkDirs, scratch, chunkTmp, blobTmp>>

\* ClearUploadedChunks
MergeClear(p) ==
    LET r == procs[p]
    IN /\ At(p, "merge", "clear")
       /\ csChunks' = ClearUploadedChunks(csChunks, r.user, r.hash)
       /\ Goto(p, [r EXCEPT !.pc = "hset"])
       /\ UNCHANGED <<msVars, tombstones, locks, bsVars>>

\* CreateTombstone of merge, fast and cancel: HSet
TombstoneHSet(p) ==
    LET r == procs[p]
    IN /\ p \in DOMAIN procs
       /\ r.pc = "hset"
       /\ r.op \in {"merge", "fast", "cancel"}
       /\ tombstones' = CreateTombstoneNoExpire(tombstones, r.user, r.hash, r.cid,
                                                IF r.op = "cancel" THEN "cancelled"
                                                ELSE "completed")
       /\ Goto(p, [r EXCEPT !.pc = "expire"])
       /\ UNCHANGED <<msVars, csChunks, locks, bsVars>>

\* CreateTombstone of merge, fast and cancel: Expire; the handler has its result
TombstoneExpire(p) ==
    LET r == procs[p]
    IN /\ p \in DOMAIN procs
       /\ r.pc = "expire"
       /\ tombstones' = ExpireTombstoneKey(tombstones, r.user, r.hash)
       /\ Goto(p, [r EXCEPT !.status = IF r.op = "merge" THEN "completed"
                                       ELSE IF r.op = "fast" THEN "fast_upload_completed"
                                       ELSE "cancelled",
                            !.pc = "unlock"])
       /\ UNCHANGED <<msVars, csChunks, locks, bsVars>>

\* ------------------------------------------------------------------ POST /upload/fast

FastLock(u, cid, h, f) ==
    LET rq == [Req("fast", u, h) EXCEPT !.cid = cid, !.fault = f]
    IN /\ LockFree("fast", u, h)
       /\ Enter(rq, "tx")
       /\ locks' = TryLock(locks, LockKey("fast", u, h), nops + 1, MaxTTL)
       /\ UNCHANGED <<msVars, tombstones, csChunks, bsVars>>

FastLockFail(u, cid, h, f) ==
    LET rq == [Req("fast", u, h) EXCEPT !.cid = cid, !.fault = f]
    IN /\ ~LockFree("fast", u, h)
       /\ Refuse(rq, "lock_failed")
       /\ UNCHANGED <<msVars, csVars, bsVars>>

\* CreateUserFileForFastUpload: First(&ct) by (id, owner_id) FOR UPDATE; no
\* such Content is the error of the request
FastFind(p) ==
    LET r == procs[p]
        found == r.cid \in 1..Len(contents) /\ contents[r.cid].owner = r.user
    IN /\ At(p, "fast", "tx")
       /\ Ready(p, "ms_find")
       /\ Goto(p, IF r.fault = "ms_find" THEN TxError(r)
                  ELSE IF found THEN [r EXCEPT !.ctLock = r.cid, !.pc = "fmref"]
                  ELSE [r EXCEPT !.status = "not_found", !.pc = "unlock"])
       /\ UNCHANGED <<msVars, csVars, bsVars>>

\* CreateUserFileForFastUpload: ref_count + 1 WHERE file_hash; no FileMeta of
\* the hash is no error
FastRef(p) ==
    LET r == procs[p]
    IN /\ At(p, "fast", "fmref")
       /\ Ready(p, "ms_ref")
       /\ Goto(p, IF r.fault = "ms_ref" THEN TxError(r)
                  ELSE IF GetFileMeta(fileMetas, r.hash)
                  THEN [r EXCEPT !.fmLock = TRUE, !.fmOp = "inc", !.pc = "ucfind"]
                  ELSE [r EXCEPT !.fmGap = TRUE, !.pc = "ucfind"])
       /\ UNCHANGED <<msVars, csVars, bsVars>>

\* CreateUserFileForFastUpload: First(&uc) by (user_id, content_id), a read
\* without lock
FastFindRow(p) ==
    LET r == procs[p]
        row == FirstUserContent(userContents, r.user, r.cid)
    IN /\ At(p, "fast", "ucfind")
       /\ Goto(p, IF r.fault = "ms_row" THEN TxError(r)
                  ELSE [r EXCEPT !.row = row, !.pc = IF row = 0 THEN "ucins" ELSE "ucupd"])
       /\ UNCHANGED <<msVars, csVars, bsVars>>

\* CreateUserFileForFastUpload: Create(&uc) with status 1 draws the next id
FastCreateRow(p) ==
    LET r == procs[p]
    IN /\ At(p, "fast", "ucins")
       /\ IF r.fault = "ms_write"
          THEN /\ Goto(p, TxError(r))
               /\ UNCHANGED userContents
          ELSE /\ userContents' = Append(userContents, NoUserContent)
               /\ Goto(p, [r EXCEPT !.ucNew = Len(userContents) + 1, !.newRow = TRUE,
                                    !.pc = "commit"])
       /\ UNCHANGED <<contents, fileMetas, csVars, bsVars>>

\* CreateUserFileForFastUpload: Updates(status 1) of the row that was read,
\* by its id
FastUpdateRow(p) ==
    LET r == procs[p]
    IN /\ At(p, "fast", "ucupd")
       /\ Ready(p, "ms_write")
       /\ Goto(p, IF r.fault = "ms_write" THEN TxError(r)
                  ELSE [r EXCEPT !.ucLock = IF userContents[r.row].user # 0
                                            THEN {r.row} ELSE {},
                                 !.pc = "commit"])
       /\ UNCHANGED <<msVars, csVars, bsVars>>

\* CreateUserFileForFastUpload: tx.Commit, when the INSERT of the row is
\* through
FastCommit(p) ==
    LET r == procs[p]
        fu == CreateUserFileForFastUpload(userContents, fileMetas, r)
    IN /\ At(p, "fast", "commit")
       /\ Ready(p, "ms_commit")
       /\ IF r.fault = "ms_commit"
          THEN /\ Goto(p, TxError(r))
               /\ UNCHANGED <<userContents, fileMetas>>
          ELSE /\ userContents' = fu.userContents
               /\ fileMetas' = fu.fileMetas
               /\ Goto(p, [Rollback(r) EXCEPT !.pc = "hset"])
       /\ UNCHANGED <<contents, csVars, bsVars>>

\* ------------------------------------------------------------------ DELETE /upload/cancel

CancelLock(u, h, cid, f) ==
    LET rq == [Req("cancel", u, h) EXCEPT !.cid = cid, !.fault = f]
    IN /\ LockFree("cancel", u, h)
       /\ Enter(rq, "update")
       /\ locks' = TryLock(locks, LockKey("cancel", u, h), nops + 1, MaxTTL)
       /\ UNCHANGED <<msVars, tombstones, csChunks, bsVars>>

CancelLockFail(u, h, cid, f) ==
    LET rq == [Req("cancel", u, h) EXCEPT !.cid = cid, !.fault = f]
    IN /\ ~LockFree("cancel", u, h)
       /\ Refuse(rq, "lock_failed")
       /\ UNCHANGED <<msVars, csVars, bsVars>>

\* UpdateUserContentStatus(-1), one statement that commits by itself; an
\* error is returned, else Store.CleanupChunks comes next
CancelUpdate(p) ==
    LET r == procs[p]
    IN /\ At(p, "cancel", "update")
       /\ Ready(p, "ms_update")
       /\ IF r.fault = "ms_update"
          THEN /\ Goto(p, [r EXCEPT !.status = "db_failed", !.pc = "unlock"])
               /\ UNCHANGED userContents
          ELSE /\ userContents' = UpdateUserContentStatus(userContents, r.user, r.cid, CANCELLED)
               /\ Goto(p, [r EXCEPT !.pc = "rm1"])
       /\ UNCHANGED <<contents, fileMetas, csVars, bsVars>>

\* ------------------------------------------------------------------ DELETE /files/{hash}

DeleteLock(u, h, f) ==
    LET rq == [Req("delete", u, h) EXCEPT !.fault = f]
    IN /\ LockFree("delete", u, h)
       /\ Enter(rq, "tx")
       /\ locks' = TryLock(locks, LockKey("delete", u, h), nops + 1, MaxTTL)
       /\ UNCHANGED <<msVars, tombstones, csChunks, bsVars>>

DeleteLockFail(u, h, f) ==
    LET rq == [Req("delete", u, h) EXCEPT !.fault = f]
    IN /\ ~LockFree("delete", u, h)
       /\ Refuse(rq, "lock_failed")
       /\ UNCHANGED <<msVars, csVars, bsVars>>

\* DeleteUserFile: Delete(&UserContent{}) WHERE user_id AND file_hash locks
\* the rows of the user and the place of further ones
DeleteRows(p) ==
    LET r == procs[p]
    IN /\ At(p, "delete", "tx")
       /\ Ready(p, "ms_rows")
       /\ Goto(p, IF r.fault = "ms_rows" THEN TxError(r)
                  ELSE [r EXCEPT !.ucLock = RowsOfHash(userContents, r.user, r.hash),
                                 !.ucGap = TRUE, !.pc = "fmfind"])
       /\ UNCHANGED <<msVars, csVars, bsVars>>

\* DeleteUserFile: First(&fm) FOR UPDATE; without a FileMeta the transaction
\* commits
DeleteFindMeta(p) ==
    LET r == procs[p]
    IN /\ At(p, "delete", "fmfind")
       /\ Ready(p, "ms_find")
       /\ Goto(p, IF r.fault = "ms_find" THEN TxError(r)
                  ELSE IF GetFileMeta(fileMetas, r.hash)
                  THEN [r EXCEPT !.fmLock = TRUE, !.pc = "fmdec"]
                  ELSE [r EXCEPT !.fmGap = TRUE, !.pc = "commit"])
       /\ UNCHANGED <<msVars, csVars, bsVars>>

\* DeleteUserFile: ref_count = GREATEST(ref_count - 1, 0)
DeleteRef(p) ==
    LET r == procs[p]
    IN /\ At(p, "delete", "fmdec")
       /\ Goto(p, IF r.fault = "ms_ref" THEN TxError(r)
                  ELSE [r EXCEPT !.fmOp = "dec", !.pc = "fmread"])
       /\ UNCHANGED <<msVars, csVars, bsVars>>

\* DeleteUserFile: First(&fm) reads the row the transaction has changed; at
\* ref_count 0 the file and the FileMeta go
DeleteReread(p) ==
    LET r == procs[p]
        fm == fileMetas[r.hash]
    IN /\ At(p, "delete", "fmread")
       /\ Goto(p, IF r.fault = "ms_read" THEN TxError(r)
                  ELSE IF Greatest(fm.refCount) > 0 THEN [r EXCEPT !.pc = "commit"]
                  ELSE IF fm.path # "" THEN [r EXCEPT !.pc = "remove"]
                  ELSE [r EXCEPT !.pc = "fmdel"])
       /\ UNCHANGED <<msVars, csVars, bsVars>>

\* DeleteUserFile: os.Remove(FilePath) inside the open transaction
DeleteRemove(p) ==
    LET r == procs[p]
        h == r.hash
        ps == [procs EXCEPT ![p].pc = "fmdel"]
        d == IF h \in DOMAIN blobs
             THEN Detach(ps, orphans, "blob", h, blobs[h])
             ELSE [procs |-> ps, orphans |-> orphans]
    IN /\ At(p, "delete", "remove")
       /\ blobs' = Del(blobs, h)
       /\ orphans' = d.orphans
       /\ GotoIn(d.procs)
       /\ UNCHANGED <<msVars, csVars, chunkDirs, scratch, chunkTmp, blobTmp>>

\* DeleteUserFile: Delete(&FileMeta{}) WHERE file_hash
DeleteMeta(p) ==
    LET r == procs[p]
    IN /\ At(p, "delete", "fmdel")
       /\ Goto(p, IF r.fault = "ms_meta" THEN TxError(r)
                  ELSE [r EXCEPT !.fmOp = "del", !.pc = "commit"])
       /\ UNCHANGED <<msVars, csVars, bsVars>>

\* DeleteUserFile: tx.Commit; a failed commit rolls the rows back, a removed
\* file stays removed
DeleteCommit(p) ==
    LET r == procs[p]
        d == DeleteUserFile(userContents, fileMetas, r)
    IN /\ At(p, "delete", "commit")
       /\ IF r.fault = "ms_commit"
          THEN /\ Goto(p, TxError(r))
               /\ UNCHANGED <<userContents, fileMetas>>
          ELSE /\ userContents' = d.userContents
               /\ fileMetas' = d.fileMetas
               /\ Goto(p, [Rollback(r) EXCEPT !.pc = "tdel"])
       /\ UNCHANGED <<contents, csVars, bsVars>>

\* DeleteTombstone after the committed transaction
DeleteDeleteTombstone(p) ==
    LET r == procs[p]
    IN /\ At(p, "delete", "tdel")
       /\ tombstones' = DeleteTombstone(tombstones, r.user, r.hash)
       /\ Goto(p, [r EXCEPT !.status = "deleted", !.pc = "unlock"])
       /\ UNCHANGED <<msVars, csChunks, locks, bsVars>>

\* ------------------------------------------------------------------ GET /files/{hash}/download

\* the numbers a Range header carries
MaxRange == 2

\* a Range header after strings.Split: none, bytes=first-last, bytes=first-,
\* bytes=-last, or a header that is refused as it is written
RangeHeaders ==
    {[kind |-> "none", first |-> 0, last |-> 0],
     [kind |-> "invalid", first |-> 0, last |-> 0]}
    \cup {[kind |-> "range", first |-> a, last |-> b] : a \in 0..MaxRange, b \in 0..MaxRange}
    \cup {[kind |-> "from", first |-> a, last |-> 0] : a \in 0..MaxRange}
    \cup {[kind |-> "suffix", first |-> 0, last |-> n] : n \in 0..MaxRange}

\* a parser that does not clamp the end to the file size
parseRangeHeaderNoClamp(hdr, fileSize) ==
    LET start0 == IF hdr.kind = "suffix" THEN fileSize - hdr.last ELSE hdr.first
        end == IF hdr.kind = "range" THEN hdr.last ELSE fileSize - 1
        start == IF start0 < 0 THEN 0 ELSE start0
    IN IF hdr.kind \in {"none", "invalid"} \/ start > end
       THEN [ok |-> FALSE, start |-> 0, end |-> 0]
       ELSE [ok |-> TRUE, start |-> start, end |-> end]

\* parseRangeHeader: a header without the prefix bytes= (the empty one too) or
\* without two parts is refused; start and end are clamped to the file size
\* of FileMeta
parseRangeHeader(hdr, fileSize) ==
    LET start0 == IF hdr.kind = "suffix" THEN fileSize - hdr.last ELSE hdr.first
        end0 == IF hdr.kind = "range" THEN hdr.last ELSE fileSize - 1
        start == IF start0 < 0 THEN 0 ELSE start0
        end == IF end0 >= fileSize THEN fileSize - 1 ELSE end0
    IN IF hdr.kind \in {"none", "invalid"} \/ start > end
       THEN [ok |-> FALSE, start |-> 0, end |-> 0]
       ELSE [ok |-> TRUE, start |-> start, end |-> end]

\* LocalStore.GetFile read to the end when nothing else runs: the whole file
GetFile(bl, h) == bl[h]

\* a range reader that stops one byte early
GetFileRangeLimitShort(start, end) == end - start

\* LocalStore.GetFileRange: the LimitReader passes end - start + 1 bytes
GetFileRangeLimit(start, end) == end - start + 1

\* LocalStore.GetFileRange read to the end when nothing else runs:
\* Seek(start), then at most end - start + 1 bytes
GetFileRange(bl, h, start, end) ==
    SubSeq(bl[h], start + 1,
           IF start + GetFileRangeLimit(start, end) < Len(bl[h])
           THEN start + GetFileRangeLimit(start, end) ELSE Len(bl[h]))

\* a download that does not look for the caller's UserContent
DownloadAllowedAlways(ucs, u, h) == TRUE

\* step 1 of DownloadFile: GetUserContentByHash finds a row of (user, hash)
DownloadAllowed(ucs, u, h) == GetUserContentByHash(ucs, u, h) # 0

\* GetUserContentByHash: without a row of the caller the request is refused
DownloadRow(u, h, hdr) ==
    LET rq == [Req("download", u, h) EXCEPT !.range = hdr]
    IN /\ IF DownloadAllowed(userContents, u, h)
          THEN Enter(rq, "meta")
          ELSE Refuse(rq, "not_found_or_denied")
       /\ UNCHANGED <<msVars, csVars, bsVars>>

\* GetFileMeta
DownloadMeta(p) ==
    LET r == procs[p]
    IN /\ At(p, "download", "meta")
       /\ IF GetFileMeta(fileMetas, r.hash)
          THEN Goto(p, [r EXCEPT !.size = fileMetas[r.hash].size, !.pc = "stat"])
          ELSE Return(p, [r EXCEPT !.status = "meta_not_found"])
       /\ UNCHANGED <<msVars, csVars, bsVars>>

\* Store.FileExists, then parseRangeHeader on the size FileMeta holds
DownloadStat(p) ==
    LET r == procs[p]
        pr == parseRangeHeader(r.range, r.size)
    IN /\ At(p, "download", "stat")
       /\ IF ~FileExists(r.hash)
          THEN Return(p, [r EXCEPT !.status = "not_on_storage", !.bsRead = TRUE])
          ELSE IF r.range.kind = "none"
          THEN Goto(p, [r EXCEPT !.bsRead = TRUE, !.pc = "gstat"])
          ELSE IF ~pr.ok
          THEN Return(p, [r EXCEPT !.status = "range_invalid", !.bsRead = TRUE])
          ELSE Goto(p, [r EXCEPT !.bsRead = TRUE, !.rangeStart = pr.start,
                                 !.rangeEnd = pr.end,
                                 !.rangeLength = pr.end - pr.start + 1, !.pc = "ropen"])
       /\ UNCHANGED <<msVars, csVars, bsVars>>

\* Store.GetFile: os.Stat gives the size the response announces
DownloadGetStat(p) ==
    LET r == procs[p]
    IN /\ At(p, "download", "gstat")
       /\ IF FileExists(r.hash)
          THEN Goto(p, [r EXCEPT !.size = Len(blobs[r.hash]), !.pc = "gopen"])
          ELSE Return(p, [r EXCEPT !.status = "get_failed"])
       /\ UNCHANGED <<msVars, csVars, bsVars>>

\* Store.GetFile: os.Open; or Store.GetFileRange: os.Open, Seek(start) and
\* the LimitReader
DownloadOpen(p) ==
    LET r == procs[p]
    IN /\ p \in DOMAIN procs
       /\ r.op = "download"
       /\ r.pc \in {"gopen", "ropen"}
       /\ IF ~FileExists(r.hash)
          THEN Return(p, [r EXCEPT !.status = "get_failed"])
          ELSE IF r.pc = "gopen"
          THEN Goto(p, [r EXCEPT !.srcAt = "blob", !.srcOff = 0, !.lim = -1,
                                 !.status = "full", !.pc = "stream"])
          ELSE Goto(p, [r EXCEPT !.srcAt = "blob", !.srcOff = r.rangeStart,
                                 !.lim = GetFileRangeLimit(r.rangeStart, r.rangeEnd),
                                 !.status = "partial", !.pc = "stream"])
       /\ UNCHANGED <<msVars, csVars, bsVars>>

\* the Content-Length the handler announces before it streams: RangeLength of
\* a Range response, the size GetFile has read with os.Stat otherwise
ContentLength(r) == IF r.status = "partial" THEN r.rangeLength ELSE r.size

\* the handler's io.Copy(w, result.Reader): one Read and the Write of what it
\* gave.  A Read gives some of the bytes from the offset to the end of the
\* file, or to the limit of the LimitReader.  net/http refuses, whole, the
\* Write that would take the body past the announced Content-Length: io.Copy
\* fails, the callback answers false and the handler returns.  At the end of
\* the file or of the limit io.Copy returns nil and the callback is called
\* again for as long as the client stays: the deferred Reader.Close and the
\* return come at any later moment, after the bytes a grown file still gave
DownloadStream(p) ==
    LET r == procs[p]
        src == SrcBytes(r)
        rest == Len(src) - r.srcOff
        left == IF r.lim >= 0 /\ r.lim < rest THEN r.lim ELSE rest
        shut == Reap([procs EXCEPT ![p].srcAt = "none", ![p].srcId = 0], orphans)
        closed == /\ orphans' = shut.orphans
                  /\ procs' = Del(shut.procs, p)
                  /\ res' = [r EXCEPT !.srcAt = "none", !.srcId = 0, !.pc = "done"]
                  /\ nops' = nops
    IN /\ At(p, "download", "stream")
       /\ IF left > 0
          THEN \E n \in 1..left :
                  IF Len(r.out) + n <= ContentLength(r)
                  THEN /\ Goto(p, [r EXCEPT !.out = r.out \o SubSeq(src, r.srcOff + 1, r.srcOff + n),
                                            !.srcOff = r.srcOff + n,
                                            !.lim = IF r.lim > 0 THEN r.lim - n ELSE r.lim])
                       /\ UNCHANGED orphans
                  ELSE closed
          ELSE closed
       /\ UNCHANGED <<msVars, csVars, chunkDirs, scratch, chunkTmp, blobs, blobTmp>>

\* ------------------------------------------------------------------ environment

\* a reconciliation that leaves the sessions still UPLOADING alone
RECURSIVE LoadTombstonesSkipUploading(_, _, _, _)
LoadTombstonesSkipUploading(ts, ucs, fms, i) ==
    IF i > Len(ucs) THEN ts
    ELSE LET r == ucs[i]
             k == <<r.user, r.hash>>
             status == IF r.status = COMPLETED
                       THEN (IF r.hash \in DOMAIN fms THEN "completed" ELSE "skip")
                       ELSE IF r.status = CANCELLED THEN "cancelled"
                       ELSE "skip"
             ts1 == IF status = "skip" \/ r.hash = "" THEN ts
                    ELSE Put(ts, k, [cid |-> r.cid, status |-> status,
                                     ttl |-> IF status = "cancelled" THEN TRUE
                                             ELSE IF k \in DOMAIN ts THEN ts[k].ttl
                                             ELSE FALSE])
         IN LoadTombstonesSkipUploading(ts1, ucs, fms, i + 1)

\* the tombstones LoadTombstonesOnStartup builds from the rows, written in
\* row order: a later row of the same (user, hash) overwrites the fields,
\* Expire is sent for cancelled entries only
RECURSIVE LoadTombstonesFromDB(_, _, _, _)
LoadTombstonesFromDB(ts, ucs, fms, i) ==
    IF i > Len(ucs) THEN ts
    ELSE LET r == ucs[i]
             k == <<r.user, r.hash>>
             status == IF r.status = COMPLETED
                       THEN (IF r.hash \in DOMAIN fms THEN "completed" ELSE "skip")
                       ELSE IF r.status \in {CANCELLED, UPLOADING} THEN "cancelled"
                       ELSE "skip"
             ts1 == IF status = "skip" \/ r.hash = "" THEN ts
                    ELSE Put(ts, k, [cid |-> r.cid, status |-> status,
                                     ttl |-> IF status = "cancelled" THEN TRUE
                                             ELSE IF k \in DOMAIN ts THEN ts[k].ttl
                                             ELSE FALSE])
         IN LoadTombstonesFromDB(ts1, ucs, fms, i + 1)

\* process start (cmd/server main): LoadTombstonesOnStartup runs before the
\* server listens.  The requests that were in flight are gone with their
\* open files and their open transactions; the keys and files they left stay
LoadTombstonesOnStartup ==
    /\ nops < MaxOps
    /\ nops' = nops + 1
    /\ tombstones' = LoadTombstonesFromDB(tombstones, userContents, fileMetas, 1)
    /\ procs' = Empty
    /\ orphans' = Empty
    /\ res' = [Req("startup", 0, "") EXCEPT !.status = "loaded", !.pc = "done",
                                            !.solo = TRUE, !.pre = Stores]
    /\ UNCHANGED <<msVars, csChunks, locks, chunkDirs, scratch, chunkTmp, blobs, blobTmp>>

\* Redis drops a tombstone whose TTL has elapsed
ExpireTombstone(k) ==
    /\ k \in DOMAIN tombstones
    /\ tombstones[k].ttl
    /\ tombstones' = Del(tombstones, k)
    /\ procs' = Disturbed(procs)
    /\ res' = [NoRes EXCEPT !.prev = LastAnswer]
    /\ UNCHANGED <<msVars, csChunks, locks, bsVars, nops>>

\* Redis drops a lock key whose TTL has elapsed: the 120 s of the merge key
\* are shorter than the 300 s a merge may run; the 30 s of the other keys
\* outlast the 10 s of their handlers, such a key expires when its owner is
\* gone
ExpireLock(k) ==
    /\ k \in DOMAIN locks
    /\ IF k[1] = "merge" THEN TRUE
       ELSE \A q \in DOMAIN procs : procs[q].tok # locks[k].owner
    /\ locks' = Del(locks, k)
    /\ procs' = Disturbed(procs)
    /\ res' = [NoRes EXCEPT !.prev = LastAnswer]
    /\ UNCHANGED <<msVars, tombstones, csChunks, bsVars, nops>>

\* ------------------------------------------------------------------ the server

\* the steps of POST /upload/init after its first
InitUpload(p) ==
    \/ InitHGet(p)
    \/ InitCid(p)
    \/ InitStat(p)
    \/ InitDeleteTombstone(p)
    \/ InitRow(p)
    \/ InitMeta(p)
    \/ InitStat2(p)
    \/ InitHSet(p)
    \/ InitLock(p)
    \/ InitLockFail(p)
    \/ InitFind(p)
    \/ InitCreate(p)
    \/ InitFindRow(p)
    \/ InitCreateRow(p)
    \/ InitUpdateRow(p)
    \/ InitCommit(p)
    \/ InitList(p)

\* the steps of POST /upload/chunk after its first
UploadChunk(p) ==
    \/ ChunkHGet(p)
    \/ ChunkList(p)
    \/ ChunkMkdir(p)
    \/ ChunkCreate(p)
    \/ ChunkCopy(p)
    \/ ChunkRename(p)
    \/ ChunkRemove(p)
    \/ ChunkRecord(p)

\* os.RemoveAll(chunkDir), called by merge and by cancel
CleanupChunksSteps(p) ==
    \/ RemoveAllTry(p)
    \/ RemoveAllOpen(p)
    \/ RemoveAllReadDir(p)
    \/ \E n \in procs[p].names : RemoveAllUnlink(p, n)
    \/ RemoveAllRmdir(p)

\* the steps of POST /upload/merge after its first
MergeChunks(p) ==
    \/ MergeList(p)
    \/ MergeCreate(p)
    \/ MergeOpen(p)
    \/ MergeCopy(p)
    \/ MergeRename(p)
    \/ MergeRemoveTmp(p)
    \/ MergeFindMeta(p)
    \/ MergeCreateMeta(p)
    \/ MergeRef(p)
    \/ MergeUpdateRows(p)
    \/ MergeCommit(p)
    \/ MergeDeleteFile(p)
    \/ MergeClear(p)

\* the steps of POST /upload/fast after its first
FastUpload(p) ==
    \/ FastFind(p)
    \/ FastRef(p)
    \/ FastFindRow(p)
    \/ FastCreateRow(p)
    \/ FastUpdateRow(p)
    \/ FastCommit(p)

\* the steps of DELETE /upload/cancel after its first
CancelUpload(p) == CancelUpdate(p)

\* the steps of DELETE /files/{hash} after its first
DeleteFile(p) ==
    \/ DeleteRows(p)
    \/ DeleteFindMeta(p)
    \/ DeleteRef(p)
    \/ DeleteReread(p)
    \/ DeleteRemove(p)
    \/ DeleteMeta(p)
    \/ DeleteCommit(p)
    \/ DeleteDeleteTombstone(p)

\* the steps of GET /files/{hash}/download after its first
DownloadFile(p) ==
    \/ DownloadMeta(p)
    \/ DownloadGetStat(p)
    \/ DownloadStat(p)
    \/ DownloadOpen(p)
    \/ DownloadStream(p)

\* one step of a request in flight
Step(p) ==
    \/ InitUpload(p)
    \/ UploadChunk(p)
    \/ MergeChunks(p)
    \/ CleanupChunksSteps(p)
    \/ FastUpload(p)
    \/ CancelUpload(p)
    \/ DeleteFile(p)
    \/ DownloadFile(p)
    \/ TxDeadlock(p)
    \/ TombstoneHSet(p)
    \/ TombstoneExpire(p)
    \/ HandlerUnlock(p)

\* a request arrives and takes its first step
Arrival ==
    \/ \E u \in Users, h \in Hashes, f \in InitFaults : InitExists(u, h, f)
    \/ \E u \in Users, h \in Hashes, i \in ChunkIdx, b \in Payloads, f \in ChunkFaults :
          ChunkExists(u, h, i, b, f)
    \/ \E u \in Users, c \in ContentIds, h \in Hashes, t \in Totals, f \in MergeFaults :
          \/ MergeLock(u, c, h, t, f)
          \/ MergeLockFail(u, c, h, t, f)
    \/ \E u \in Users, c \in ContentIds, h \in Hashes, f \in FastFaults :
          \/ FastLock(u, c, h, f)
          \/ FastLockFail(u, c, h, f)
    \/ \E u \in Users, c \in ContentIds, h \in Hashes, f \in CancelFaults :
          \/ CancelLock(u, h, c, f)
          \/ CancelLockFail(u, h, c, f)
    \/ \E u \in Users, h \in Hashes, f \in DeleteFaults :
          \/ DeleteLock(u, h, f)
          \/ DeleteLockFail(u, h, f)
    \/ \E u \in Users, h \in Hashes, hdr \in RangeHeaders : DownloadRow(u, h, hdr)

\* the server: requests arrive at any time, each is served by a goroutine of
\* its own, and any request in flight may take the next step; Redis drops
\* keys whose TTL has elapsed; the process may stop and start again
Next ==
    \/ Arrival
    \/ \E p \in DOMAIN procs : Step(p)
    \/ LoadTombstonesOnStartup
    \/ \E k \in DOMAIN tombstones : ExpireTombstone(k)
    \/ \E k \in DOMAIN locks : ExpireLock(k)

Spec == Init /\ [][Next]_vars

\* ------------------------------------------------------------------ bounded specifications

\* the names os.RemoveAll can read in a chunk directory
DirNames == {"part", "ptmp"} \X ChunkIdx

\* the failures the runs of the whole server draw from: those of the reads of
\* init and of the commit of a transaction
ReadFaults == InitFaults \ {"ms_find", "ms_create", "ms_row", "ms_write", "ms_commit"}
CommitFaults == {"none", "ms_commit"}

\* the requests of the runs from an empty server
MaxCold == 3

\* the requests that may overlap in these runs: a request after the first
\* MaxOverlap arrives when the others have returned
MaxOverlap == 2

\* a request of a run from an empty server can arrive
ColdSlot == nops < MaxCold /\ IF nops < MaxOverlap THEN TRUE ELSE Quiescent

\* a server that starts empty: MaxCold upload requests of any kind and
\* arguments, the first MaxOverlap of them overlapping at will; Redis drops
\* keys and the process restarts at any time
NextCold ==
    \/ ColdSlot /\ \E u \in Users, h \in Hashes, f \in ReadFaults : InitExists(u, h, f)
    \/ ColdSlot /\ \E u \in Users, h \in Hashes, i \in ChunkIdx, b \in Payloads, f \in ChunkFaults :
          ChunkExists(u, h, i, b, f)
    \/ ColdSlot /\ \E u \in Users, c \in ContentIds, h \in Hashes, t \in Totals, f \in CommitFaults :
          MergeLock(u, c, h, t, f)
    \/ ColdSlot /\ \E u \in Users, c \in ContentIds, h \in Hashes, t \in Totals, f \in CommitFaults :
          MergeLockFail(u, c, h, t, f)
    \/ ColdSlot /\ \E u \in Users, c \in ContentIds, h \in Hashes : FastLock(u, c, h, "none")
    \/ ColdSlot /\ \E u \in Users, c \in ContentIds, h \in Hashes : FastLockFail(u, c, h, "none")
    \/ ColdSlot /\ \E u \in Users, c \in ContentIds, h \in Hashes : CancelLock(u, h, c, "none")
    \/ ColdSlot /\ \E u \in Users, c \in ContentIds, h \in Hashes : CancelLockFail(u, h, c, "none")
    \/ ColdSlot /\ \E u \in Users, h \in Hashes, f \in CommitFaults : DeleteLock(u, h, f)
    \/ ColdSlot /\ \E u \in Users, h \in Hashes, f \in CommitFaults : DeleteLockFail(u, h, f)
    \/ \E p \in ProcIds : InitHGet(p)
    \/ \E p \in ProcIds : InitCid(p)
    \/ \E p \in ProcIds : InitStat(p)
    \/ \E p \in ProcIds : InitDeleteTombstone(p)
    \/ \E p \in ProcIds : InitRow(p)
    \/ \E p \in ProcIds : InitMeta(p)
    \/ \E p \in ProcIds : InitLock(p)
    \/ \E p \in ProcIds : InitLockFail(p)
    \/ \E p \in ProcIds : InitFind(p)
    \/ \E p \in ProcIds : InitCreate(p)
    \/ \E p \in ProcIds : InitFindRow(p)
    \/ \E p \in ProcIds : InitCreateRow(p)
    \/ \E p \in ProcIds : InitUpdateRow(p)
    \/ \E p \in ProcIds : InitCommit(p)
    \/ \E p \in ProcIds : InitList(p)
    \/ \E p \in ProcIds : ChunkHGet(p)
    \/ \E p \in ProcIds : ChunkList(p)
    \/ \E p \in ProcIds : ChunkMkdir(p)
    \/ \E p \in ProcIds : ChunkCreate(p)
    \/ \E p \in ProcIds : ChunkCopy(p)
    \/ \E p \in ProcIds : ChunkRename(p)
    \/ \E p \in ProcIds : ChunkRemove(p)
    \/ \E p \in ProcIds : ChunkRecord(p)
    \/ \E p \in ProcIds : MergeList(p)
    \/ \E p \in ProcIds : MergeCreate(p)
    \/ \E p \in ProcIds : MergeOpen(p)
    \/ \E p \in ProcIds : MergeCopy(p)
    \/ \E p \in ProcIds : MergeRename(p)
    \/ \E p \in ProcIds : MergeRemoveTmp(p)
    \/ \E p \in ProcIds : RemoveAllTry(p)
    \/ \E p \in ProcIds : RemoveAllOpen(p)
    \/ \E p \in ProcIds : RemoveAllReadDir(p)
    \/ \E p \in ProcIds, n \in DirNames : RemoveAllUnlink(p, n)
    \/ \E p \in ProcIds : RemoveAllRmdir(p)
    \/ \E p \in ProcIds : MergeFindMeta(p)
    \/ \E p \in ProcIds : MergeCreateMeta(p)
    \/ \E p \in ProcIds : MergeUpdateRows(p)
    \/ \E p \in ProcIds : MergeCommit(p)
    \/ \E p \in ProcIds : MergeDeleteFile(p)
    \/ \E p \in ProcIds : MergeClear(p)
    \/ \E p \in ProcIds : TombstoneHSet(p)
    \/ \E p \in ProcIds : TombstoneExpire(p)
    \/ \E p \in ProcIds : FastFind(p)
    \/ \E p \in ProcIds : FastRef(p)
    \/ \E p \in ProcIds : FastFindRow(p)
    \/ \E p \in ProcIds : FastCreateRow(p)
    \/ \E p \in ProcIds : FastUpdateRow(p)
    \/ \E p \in ProcIds : FastCommit(p)
    \/ \E p \in ProcIds : CancelUpdate(p)
    \/ \E p \in ProcIds : DeleteRows(p)
    \/ \E p \in ProcIds : DeleteFindMeta(p)
    \/ \E p \in ProcIds : DeleteRef(p)
    \/ \E p \in ProcIds : DeleteReread(p)
    \/ \E p \in ProcIds : DeleteRemove(p)
    \/ \E p \in ProcIds : DeleteMeta(p)
    \/ \E p \in ProcIds : DeleteCommit(p)
    \/ \E p \in ProcIds : DeleteDeleteTombstone(p)
    \/ \E p \in ProcIds : TxDeadlock(p)
    \/ \E p \in ProcIds : HandlerUnlock(p)
    \/ nops < MaxCold /\ LoadTombstonesOnStartup
    \/ \E k \in DOMAIN tombstones : ExpireTombstone(k)
    \/ \E k \in DOMAIN locks : ExpireLock(k)

SpecCold == Init /\ [][NextCold]_vars

\* a request after the cold upload of user 1 can arrive: the first one when
\* the upload has returned, the second one at any time
WarmSlot == nops \in {3, 4} /\ IF nops = 3 THEN Quiescent ELSE TRUE

\* a server on which user 1 has uploaded h1 (init, one chunk, merge), then
\* two more requests of any kind and arguments that may overlap
NextWarm ==
    \/ nops = 0 /\ InitExists(1, "h1", "none")
    \/ nops = 1 /\ Quiescent /\ ChunkExists(1, "h1", 0, <<1>>, "none")
    \/ nops = 2 /\ Quiescent /\ MergeLock(1, 1, "h1", 1, "none")
    \/ WarmSlot /\ \E u \in Users, h \in Hashes, f \in ReadFaults : InitExists(u, h, f)
    \/ WarmSlot /\ \E u \in Users, h \in Hashes, i \in ChunkIdx, b \in Payloads, f \in ChunkFaults :
          ChunkExists(u, h, i, b, f)
    \/ WarmSlot /\ \E u \in Users, c \in ContentIds, h \in Hashes, t \in Totals, f \in CommitFaults :
          MergeLock(u, c, h, t, f)
    \/ WarmSlot /\ \E u \in Users, c \in ContentIds, h \in Hashes, t \in Totals, f \in CommitFaults :
          MergeLockFail(u, c, h, t, f)
    \/ WarmSlot /\ \E u \in Users, c \in ContentIds, h \in Hashes : FastLock(u, c, h, "none")
    \/ WarmSlot /\ \E u \in Users, c \in ContentIds, h \in Hashes : FastLockFail(u, c, h, "none")
    \/ WarmSlot /\ \E u \in Users, c \in ContentIds, h \in Hashes : CancelLock(u, h, c, "none")
    \/ WarmSlot /\ \E u \in Users, c \in ContentIds, h \in Hashes : CancelLockFail(u, h, c, "none")
    \/ WarmSlot /\ \E u \in Users, h \in Hashes, f \in CommitFaults : DeleteLock(u, h, f)
    \/ WarmSlot /\ \E u \in Users, h \in Hashes, f \in CommitFaults : DeleteLockFail(u, h, f)
    \/ \E p \in ProcIds : InitHGet(p)
    \/ \E p \in ProcIds : InitCid(p)
    \/ \E p \in ProcIds : InitStat(p)
    \/ \E p \in ProcIds : InitDeleteTombstone(p)
    \/ \E p \in ProcIds : InitRow(p)
    \/ \E p \in ProcIds : InitMeta(p)
    \/ \E p \in ProcIds : InitStat2(p)
    \/ \E p \in ProcIds : InitHSet(p)
    \/ \E p \in ProcIds : InitLock(p)
    \/ \E p \in ProcIds : InitLockFail(p)
    \/ \E p \in ProcIds : InitFind(p)
    \/ \E p \in ProcIds : InitCreate(p)
    \/ \E p \in ProcIds : InitFindRow(p)
    \/ \E p \in ProcIds : InitCreateRow(p)
    \/ \E p \in ProcIds : InitUpdateRow(p)
    \/ \E p \in ProcIds : InitCommit(p)
    \/ \E p \in ProcIds : InitList(p)
    \/ \E p \in ProcIds : ChunkHGet(p)
    \/ \E p \in ProcIds : ChunkList(p)
    \/ \E p \in ProcIds : ChunkMkdir(p)
    \/ \E p \in ProcIds : ChunkCreate(p)
    \/ \E p \in ProcIds : ChunkCopy(p)
    \/ \E p \in ProcIds : ChunkRename(p)
    \/ \E p \in ProcIds : ChunkRemove(p)
    \/ \E p \in ProcIds : ChunkRecord(p)
    \/ \E p \in ProcIds : MergeList(p)
    \/ \E p \in ProcIds : MergeCreate(p)
    \/ \E p \in ProcIds : MergeOpen(p)
    \/ \E p \in ProcIds : MergeCopy(p)
    \/ \E p \in ProcIds : MergeRename(p)
    \/ \E p \in ProcIds : MergeRemoveTmp(p)
    \/ \E p \in ProcIds : RemoveAllTry(p)
    \/ \E p \in ProcIds : RemoveAllOpen(p)
    \/ \E p \in ProcIds : RemoveAllReadDir(p)
    \/ \E p \in ProcIds, n \in DirNames : RemoveAllUnlink(p, n)
    \/ \E p \in ProcIds : RemoveAllRmdir(p)
    \/ \E p \in ProcIds : MergeFindMeta(p)
    \/ \E p \in ProcIds : MergeCreateMeta(p)
    \/ \E p \in ProcIds : MergeRef(p)
    \/ \E p \in ProcIds : MergeUpdateRows(p)
    \/ \E p \in ProcIds : MergeCommit(p)
    \/ \E p \in ProcIds : MergeDeleteFile(p)
    \/ \E p \in ProcIds : MergeClear(p)
    \/ \E p \in ProcIds : TombstoneHSet(p)
    \/ \E p \in ProcIds : TombstoneExpire(p)
    \/ \E p \in ProcIds : FastFind(p)
    \/ \E p \in ProcIds : FastRef(p)
    \/ \E p \in ProcIds : FastFindRow(p)
    \/ \E p \in ProcIds : FastCreateRow(p)
    \/ \E p \in ProcIds : FastUpdateRow(p)
    \/ \E p \in ProcIds : FastCommit(p)
    \/ \E p \in ProcIds : CancelUpdate(p)
    \/ \E p \in ProcIds : DeleteRows(p)
    \/ \E p \in ProcIds : DeleteFindMeta(p)
    \/ \E p \in ProcIds : DeleteRef(p)
    \/ \E p \in ProcIds : DeleteReread(p)
    \/ \E p \in ProcIds : DeleteRemove(p)
    \/ \E p \in ProcIds : DeleteMeta(p)
    \/ \E p \in ProcIds : DeleteCommit(p)
    \/ \E p \in ProcIds : DeleteDeleteTombstone(p)
    \/ \E p \in ProcIds : TxDeadlock(p)
    \/ \E p \in ProcIds : HandlerUnlock(p)
    \/ nops \in {3, 4} /\ Quiescent /\ LoadTombstonesOnStartup
    \/ nops >= 3 /\ \E k \in DOMAIN tombstones : ExpireTombstone(k)
    \/ nops >= 3 /\ \E k \in DOMAIN locks : ExpireLock(k)

SpecWarm == Init /\ [][NextWarm]_vars

\* the second uploadChunk of a session may arrive while the first is at work
SessionChunkSlot == nops \in {1, 2} /\ IF nops = 1 THEN Quiescent ELSE TRUE

\* one upload session after another request: init, two uploadChunk requests
\* with any index and payload, then a merge with any arguments; no failure
\* of a store before the merge
NextSession ==
    \/ nops = 0 /\ \E u \in Users, h \in Hashes : InitExists(u, h, "none")
    \/ SessionChunkSlot /\ \E u \in Users, h \in Hashes, i \in ChunkIdx, b \in Payloads :
          ChunkExists(u, h, i, b, "none")
    \/ nops = 3 /\ Quiescent /\ \E u \in Users, c \in ContentIds, h \in Hashes, t \in Totals, f \in MergeFaults :
          MergeLock(u, c, h, t, f)
    \/ \E p \in ProcIds : InitRow(p)
    \/ \E p \in ProcIds : InitLock(p)
    \/ \E p \in ProcIds : InitFind(p)
    \/ \E p \in ProcIds : InitCreate(p)
    \/ \E p \in ProcIds : InitFindRow(p)
    \/ \E p \in ProcIds : InitCreateRow(p)
    \/ \E p \in ProcIds : InitCommit(p)
    \/ \E p \in ProcIds : InitList(p)
    \/ \E p \in ProcIds : ChunkList(p)
    \/ \E p \in ProcIds : ChunkMkdir(p)
    \/ \E p \in ProcIds : ChunkCreate(p)
    \/ \E p \in ProcIds : ChunkCopy(p)
    \/ \E p \in ProcIds : ChunkRename(p)
    \/ \E p \in ProcIds : ChunkRemove(p)
    \/ \E p \in ProcIds : ChunkRecord(p)
    \/ \E p \in ProcIds : MergeList(p)
    \/ \E p \in ProcIds : MergeCreate(p)
    \/ \E p \in ProcIds : MergeOpen(p)
    \/ \E p \in ProcIds : MergeCopy(p)
    \/ \E p \in ProcIds : MergeRename(p)
    \/ \E p \in ProcIds : MergeRemoveTmp(p)
    \/ \E p \in ProcIds : RemoveAllTry(p)
    \/ \E p \in ProcIds : RemoveAllOpen(p)
    \/ \E p \in ProcIds : RemoveAllReadDir(p)
    \/ \E p \in ProcIds, n \in DirNames : RemoveAllUnlink(p, n)
    \/ \E p \in ProcIds : RemoveAllRmdir(p)
    \/ \E p \in ProcIds : MergeFindMeta(p)
    \/ \E p \in ProcIds : MergeCreateMeta(p)
    \/ \E p \in ProcIds : MergeUpdateRows(p)
    \/ \E p \in ProcIds : MergeCommit(p)
    \/ \E p \in ProcIds : MergeDeleteFile(p)
    \/ \E p \in ProcIds : MergeClear(p)
    \/ \E p \in ProcIds : TombstoneHSet(p)
    \/ \E p \in ProcIds : TombstoneExpire(p)
    \/ \E p \in ProcIds : HandlerUnlock(p)

SpecSession == Init /\ [][NextSession]_vars

\* a request of kind `op` is in flight
InFlight(op) == \E q \in DOMAIN procs : procs[q].op = op

\* user 1 has an open session of h1 with its one chunk on BS; a merge and a
\* cancel of the session run together, whichever arrives first
NextRace ==
    \/ nops = 0 /\ InitExists(1, "h1", "none")
    \/ nops = 1 /\ Quiescent /\ ChunkExists(1, "h1", 0, <<1>>, "none")
    \/ nops = 2 /\ Quiescent /\ MergeLock(1, 1, "h1", 1, "none")
    \/ nops = 2 /\ Quiescent /\ CancelLock(1, "h1", 1, "none")
    \/ nops = 3 /\ InFlight("cancel") /\ MergeLock(1, 1, "h1", 1, "none")
    \/ nops = 3 /\ InFlight("merge") /\ CancelLock(1, "h1", 1, "none")
    \/ \E p \in ProcIds : InitRow(p)
    \/ \E p \in ProcIds : InitLock(p)
    \/ \E p \in ProcIds : InitFind(p)
    \/ \E p \in ProcIds : InitCreate(p)
    \/ \E p \in ProcIds : InitFindRow(p)
    \/ \E p \in ProcIds : InitCreateRow(p)
    \/ \E p \in ProcIds : InitCommit(p)
    \/ \E p \in ProcIds : InitList(p)
    \/ \E p \in ProcIds : ChunkList(p)
    \/ \E p \in ProcIds : ChunkMkdir(p)
    \/ \E p \in ProcIds : ChunkCreate(p)
    \/ \E p \in ProcIds : ChunkCopy(p)
    \/ \E p \in ProcIds : ChunkRename(p)
    \/ \E p \in ProcIds : ChunkRecord(p)
    \/ \E p \in ProcIds : MergeList(p)
    \/ \E p \in ProcIds : MergeCreate(p)
    \/ \E p \in ProcIds : MergeOpen(p)
    \/ \E p \in ProcIds : MergeCopy(p)
    \/ \E p \in ProcIds : MergeRename(p)
    \/ \E p \in ProcIds : MergeRemoveTmp(p)
    \/ \E p \in ProcIds : RemoveAllTry(p)
    \/ \E p \in ProcIds : RemoveAllOpen(p)
    \/ \E p \in ProcIds : RemoveAllReadDir(p)
    \/ \E p \in ProcIds, n \in DirNames : RemoveAllUnlink(p, n)
    \/ \E p \in ProcIds : RemoveAllRmdir(p)
    \/ \E p \in ProcIds : MergeFindMeta(p)
    \/ \E p \in ProcIds : MergeCreateMeta(p)
    \/ \E p \in ProcIds : MergeUpdateRows(p)
    \/ \E p \in ProcIds : MergeCommit(p)
    \/ \E p \in ProcIds : MergeClear(p)
    \/ \E p \in ProcIds : TombstoneHSet(p)
    \/ \E p \in ProcIds : TombstoneExpire(p)
    \/ \E p \in ProcIds : CancelUpdate(p)
    \/ \E p \in ProcIds : HandlerUnlock(p)

SpecRace == Init /\ [][NextRace]_vars

\* the merge requests that follow the setup of a session
MaxMerges == 3

\* user 1 has an open session of h1 with its one chunk on BS; merge requests
\* of the session arrive at any time, and Redis drops the merge key when its
\* TTL has elapsed
NextMerge ==
    \/ nops = 0 /\ InitExists(1, "h1", "none")
    \/ nops = 1 /\ Quiescent /\ ChunkExists(1, "h1", 0, <<1>>, "none")
    \/ nops \in 2..(MaxSetup + MaxMerges - 1) /\ MergeLock(1, 1, "h1", 1, "none")
    \/ nops \in 2..(MaxSetup + MaxMerges - 1) /\ MergeLockFail(1, 1, "h1", 1, "none")
    \/ \E p \in ProcIds : InitRow(p)
    \/ \E p \in ProcIds : InitLock(p)
    \/ \E p \in ProcIds : InitFind(p)
    \/ \E p \in ProcIds : InitCreate(p)
    \/ \E p \in ProcIds : InitFindRow(p)
    \/ \E p \in ProcIds : InitCreateRow(p)
    \/ \E p \in ProcIds : InitCommit(p)
    \/ \E p \in ProcIds : InitList(p)
    \/ \E p \in ProcIds : ChunkList(p)
    \/ \E p \in ProcIds : ChunkMkdir(p)
    \/ \E p \in ProcIds : ChunkCreate(p)
    \/ \E p \in ProcIds : ChunkCopy(p)
    \/ \E p \in ProcIds : ChunkRename(p)
    \/ \E p \in ProcIds : ChunkRecord(p)
    \/ \E p \in ProcIds : MergeList(p)
    \/ \E p \in ProcIds : MergeCreate(p)
    \/ \E p \in ProcIds : MergeOpen(p)
    \/ \E p \in ProcIds : MergeCopy(p)
    \/ \E p \in ProcIds : MergeRename(p)
    \/ \E p \in ProcIds : MergeRemoveTmp(p)
    \/ \E p \in ProcIds : RemoveAllTry(p)
    \/ \E p \in ProcIds : RemoveAllOpen(p)
    \/ \E p \in ProcIds : RemoveAllReadDir(p)
    \/ \E p \in ProcIds, n \in DirNames : RemoveAllUnlink(p, n)
    \/ \E p \in ProcIds : RemoveAllRmdir(p)
    \/ \E p \in ProcIds : MergeFindMeta(p)
    \/ \E p \in ProcIds : MergeCreateMeta(p)
    \/ \E p \in ProcIds : MergeRef(p)
    \/ \E p \in ProcIds : MergeUpdateRows(p)
    \/ \E p \in ProcIds : MergeCommit(p)
    \/ \E p \in ProcIds : MergeDeleteFile(p)
    \/ \E p \in ProcIds : MergeClear(p)
    \/ \E p \in ProcIds : TombstoneHSet(p)
    \/ \E p \in ProcIds : TombstoneExpire(p)
    \/ \E p \in ProcIds : TxDeadlock(p)
    \/ \E p \in ProcIds : HandlerUnlock(p)
    \/ \E k \in DOMAIN locks : ExpireLock(k)

SpecMerge == Init /\ [][NextMerge]_vars

\* each user has its one chunk of h1 on BS; merge requests of both users
\* arrive at any time, no lock key expires
NextMergeUsers ==
    \/ nops = 0 /\ ChunkExists(1, "h1", 0, <<1>>, "none")
    \/ nops = 1 /\ Quiescent /\ ChunkExists(2, "h1", 0, <<2, 3>>, "none")
    \/ nops \in {2, 3} /\ Quiescent /\ \E u \in Users, c \in ContentIds : MergeLock(u, c, "h1", 1, "none")
    \/ nops \in {2, 3} /\ ~Quiescent /\ \E u \in Users, c \in ContentIds : MergeLock(u, c, "h1", 1, "none")
    \/ nops \in {2, 3} /\ \E u \in Users, c \in ContentIds : MergeLockFail(u, c, "h1", 1, "none")
    \/ \E p \in ProcIds : ChunkList(p)
    \/ \E p \in ProcIds : ChunkMkdir(p)
    \/ \E p \in ProcIds : ChunkCreate(p)
    \/ \E p \in ProcIds : ChunkCopy(p)
    \/ \E p \in ProcIds : ChunkRename(p)
    \/ \E p \in ProcIds : ChunkRecord(p)
    \/ \E p \in ProcIds : MergeList(p)
    \/ \E p \in ProcIds : MergeCreate(p)
    \/ \E p \in ProcIds : MergeOpen(p)
    \/ \E p \in ProcIds : MergeCopy(p)
    \/ \E p \in ProcIds : MergeRename(p)
    \/ \E p \in ProcIds : MergeRemoveTmp(p)
    \/ \E p \in ProcIds : RemoveAllTry(p)
    \/ \E p \in ProcIds : RemoveAllOpen(p)
    \/ \E p \in ProcIds : RemoveAllReadDir(p)
    \/ \E p \in ProcIds, n \in DirNames : RemoveAllUnlink(p, n)
    \/ \E p \in ProcIds : RemoveAllRmdir(p)
    \/ \E p \in ProcIds : MergeFindMeta(p)
    \/ \E p \in ProcIds : MergeCreateMeta(p)
    \/ \E p \in ProcIds : MergeRef(p)
    \/ \E p \in ProcIds : MergeUpdateRows(p)
    \/ \E p \in ProcIds : MergeCommit(p)
    \/ \E p \in ProcIds : MergeDeleteFile(p)
    \/ \E p \in ProcIds : MergeClear(p)
    \/ \E p \in ProcIds : TombstoneHSet(p)
    \/ \E p \in ProcIds : TombstoneExpire(p)
    \/ \E p \in ProcIds : TxDeadlock(p)
    \/ \E p \in ProcIds : HandlerUnlock(p)

SpecMergeUsers == Init /\ [][NextMergeUsers]_vars

\* the requests of the runs of uploadChunk and cancel
MaxChunkReqs == 3

\* uploadChunk requests of any user, index and payload and cancel requests
\* arrive at any time on a server that starts empty; no store fails
NextChunk ==
    \/ nops < MaxChunkReqs /\ \E u \in Users, h \in Hashes, i \in ChunkIdx, b \in Payloads :
          ChunkExists(u, h, i, b, "none")
    \/ nops < MaxChunkReqs /\ \E u \in Users, c \in ContentIds, h \in Hashes : CancelLock(u, h, c, "none")
    \/ nops < MaxChunkReqs /\ \E u \in Users, c \in ContentIds, h \in Hashes : CancelLockFail(u, h, c, "none")
    \/ \E p \in ProcIds : ChunkHGet(p)
    \/ \E p \in ProcIds : ChunkList(p)
    \/ \E p \in ProcIds : ChunkMkdir(p)
    \/ \E p \in ProcIds : ChunkCreate(p)
    \/ \E p \in ProcIds : ChunkCopy(p)
    \/ \E p \in ProcIds : ChunkRename(p)
    \/ \E p \in ProcIds : ChunkRemove(p)
    \/ \E p \in ProcIds : ChunkRecord(p)
    \/ \E p \in ProcIds : RemoveAllTry(p)
    \/ \E p \in ProcIds : RemoveAllOpen(p)
    \/ \E p \in ProcIds : RemoveAllReadDir(p)
    \/ \E p \in ProcIds, n \in DirNames : RemoveAllUnlink(p, n)
    \/ \E p \in ProcIds : RemoveAllRmdir(p)
    \/ \E p \in ProcIds : TombstoneHSet(p)
    \/ \E p \in ProcIds : TombstoneExpire(p)
    \/ \E p \in ProcIds : CancelUpdate(p)
    \/ \E p \in ProcIds : HandlerUnlock(p)

SpecChunk == Init /\ [][NextChunk]_vars

\* the requests of the runs of init
MaxInits == 3

\* init requests arrive at any time on a server that starts empty.  The lock
\* of init has a TTL of 30 s and the handler a deadline of 10 s: the key does
\* not expire under a request at work
NextInit ==
    \/ nops < MaxInits /\ \E u \in Users, h \in Hashes, f \in InitFaults : InitExists(u, h, f)
    \/ \E p \in ProcIds : InitRow(p)
    \/ \E p \in ProcIds : InitLock(p)
    \/ \E p \in ProcIds : InitLockFail(p)
    \/ \E p \in ProcIds : InitFind(p)
    \/ \E p \in ProcIds : InitCreate(p)
    \/ \E p \in ProcIds : InitFindRow(p)
    \/ \E p \in ProcIds : InitCreateRow(p)
    \/ \E p \in ProcIds : InitUpdateRow(p)
    \/ \E p \in ProcIds : InitCommit(p)
    \/ \E p \in ProcIds : InitList(p)
    \/ \E p \in ProcIds : TxDeadlock(p)
    \/ \E p \in ProcIds : HandlerUnlock(p)

SpecInit == Init /\ [][NextInit]_vars

\* the upload requests served before the downloads
MaxUpload == 3

\* MaxUpload init, uploadChunk and merge requests are served one after
\* another with no store failure; then a download with any Range header
\* arrives, and a delete while it is served
NextDownload ==
    \/ nops < MaxUpload /\ Quiescent /\ \E u \in Users, h \in Hashes : InitExists(u, h, "none")
    \/ nops < MaxUpload /\ Quiescent /\ \E u \in Users, h \in Hashes, i \in ChunkIdx, b \in Payloads :
          ChunkExists(u, h, i, b, "none")
    \/ nops < MaxUpload /\ Quiescent /\ \E u \in Users, c \in ContentIds, h \in Hashes, t \in Totals :
          MergeLock(u, c, h, t, "none")
    \/ nops = MaxUpload /\ Quiescent /\ \E u \in Users, h \in Hashes, hdr \in RangeHeaders :
          DownloadRow(u, h, hdr)
    \/ nops = MaxUpload + 1 /\ InFlight("download") /\ \E u \in Users, h \in Hashes : DeleteLock(u, h, "none")
    \/ \E p \in ProcIds : InitHGet(p)
    \/ \E p \in ProcIds : InitCid(p)
    \/ \E p \in ProcIds : InitStat(p)
    \/ \E p \in ProcIds : InitRow(p)
    \/ \E p \in ProcIds : InitLock(p)
    \/ \E p \in ProcIds : InitFind(p)
    \/ \E p \in ProcIds : InitCreate(p)
    \/ \E p \in ProcIds : InitFindRow(p)
    \/ \E p \in ProcIds : InitCreateRow(p)
    \/ \E p \in ProcIds : InitUpdateRow(p)
    \/ \E p \in ProcIds : InitCommit(p)
    \/ \E p \in ProcIds : InitList(p)
    \/ \E p \in ProcIds : ChunkHGet(p)
    \/ \E p \in ProcIds : ChunkList(p)
    \/ \E p \in ProcIds : ChunkMkdir(p)
    \/ \E p \in ProcIds : ChunkCreate(p)
    \/ \E p \in ProcIds : ChunkCopy(p)
    \/ \E p \in ProcIds : ChunkRename(p)
    \/ \E p \in ProcIds : ChunkRemove(p)
    \/ \E p \in ProcIds : ChunkRecord(p)
    \/ \E p \in ProcIds : MergeList(p)
    \/ \E p \in ProcIds : MergeCreate(p)
    \/ \E p \in ProcIds : MergeOpen(p)
    \/ \E p \in ProcIds : MergeCopy(p)
    \/ \E p \in ProcIds : MergeRename(p)
    \/ \E p \in ProcIds : MergeRemoveTmp(p)
    \/ \E p \in ProcIds : RemoveAllTry(p)
    \/ \E p \in ProcIds : RemoveAllOpen(p)
    \/ \E p \in ProcIds : RemoveAllReadDir(p)
    \/ \E p \in ProcIds, n \in DirNames : RemoveAllUnlink(p, n)
    \/ \E p \in ProcIds : RemoveAllRmdir(p)
    \/ \E p \in ProcIds : MergeFindMeta(p)
    \/ \E p \in ProcIds : MergeCreateMeta(p)
    \/ \E p \in ProcIds : MergeUpdateRows(p)
    \/ \E p \in ProcIds : MergeCommit(p)
    \/ \E p \in ProcIds : MergeClear(p)
    \/ \E p \in ProcIds : TombstoneHSet(p)
    \/ \E p \in ProcIds : TombstoneExpire(p)
    \/ \E p \in ProcIds : DeleteRows(p)
    \/ \E p \in ProcIds : DeleteFindMeta(p)
    \/ \E p \in ProcIds : DeleteRef(p)
    \/ \E p \in ProcIds : DeleteReread(p)
    \/ \E p \in ProcIds : DeleteRemove(p)
    \/ \E p \in ProcIds : DeleteMeta(p)
    \/ \E p \in ProcIds : DeleteCommit(p)
    \/ \E p \in ProcIds : DeleteDeleteTombstone(p)
    \/ \E p \in ProcIds : DownloadMeta(p)
    \/ \E p \in ProcIds : DownloadStat(p)
    \/ \E p \in ProcIds : DownloadGetStat(p)
    \/ \E p \in ProcIds : DownloadOpen(p)
    \/ \E p \in ProcIds : DownloadStream(p)
    \/ \E p \in ProcIds : HandlerUnlock(p)

SpecDownload == Init /\ [][NextDownload]_vars

\* the hashes of users who upload two files
TwoHashes == {"h1", "h2"}

\* the requests of the runs with two hashes
MaxTwo == 3

\* init, uploadChunk, merge and cancel requests of users who upload two
\* files, served one after another with no store failure
NextTwoHashes ==
    \/ nops < MaxTwo /\ Quiescent /\ \E u \in Users, h \in TwoHashes : InitExists(u, h, "none")
    \/ nops < MaxTwo /\ Quiescent /\ \E u \in Users, h \in TwoHashes, b \in Payloads :
          ChunkExists(u, h, 0, b, "none")
    \/ nops < MaxTwo /\ Quiescent /\ \E u \in Users, c \in ContentIds, h \in TwoHashes, t \in Totals :
          MergeLock(u, c, h, t, "none")
    \/ nops < MaxTwo /\ Quiescent /\ \E u \in Users, c \in ContentIds, h \in TwoHashes : CancelLock(u, h, c, "none")
    \/ \E p \in ProcIds : InitHGet(p)
    \/ \E p \in ProcIds : InitCid(p)
    \/ \E p \in ProcIds : InitStat(p)
    \/ \E p \in ProcIds : InitDeleteTombstone(p)
    \/ \E p \in ProcIds : InitRow(p)
    \/ \E p \in ProcIds : InitLock(p)
    \/ \E p \in ProcIds : InitFind(p)
    \/ \E p \in ProcIds : InitCreate(p)
    \/ \E p \in ProcIds : InitFindRow(p)
    \/ \E p \in ProcIds : InitCreateRow(p)
    \/ \E p \in ProcIds : InitUpdateRow(p)
    \/ \E p \in ProcIds : InitCommit(p)
    \/ \E p \in ProcIds : InitList(p)
    \/ \E p \in ProcIds : ChunkHGet(p)
    \/ \E p \in ProcIds : ChunkList(p)
    \/ \E p \in ProcIds : ChunkMkdir(p)
    \/ \E p \in ProcIds : ChunkCreate(p)
    \/ \E p \in ProcIds : ChunkCopy(p)
    \/ \E p \in ProcIds : ChunkRename(p)
    \/ \E p \in ProcIds : ChunkRemove(p)
    \/ \E p \in ProcIds : ChunkRecord(p)
    \/ \E p \in ProcIds : MergeList(p)
    \/ \E p \in ProcIds : MergeCreate(p)
    \/ \E p \in ProcIds : MergeOpen(p)
    \/ \E p \in ProcIds : MergeCopy(p)
    \/ \E p \in ProcIds : MergeRename(p)
    \/ \E p \in ProcIds : RemoveAllTry(p)
    \/ \E p \in ProcIds : RemoveAllOpen(p)
    \/ \E p \in ProcIds : RemoveAllReadDir(p)
    \/ \E p \in ProcIds, n \in DirNames : RemoveAllUnlink(p, n)
    \/ \E p \in ProcIds : RemoveAllRmdir(p)
    \/ \E p \in ProcIds : MergeFindMeta(p)
    \/ \E p \in ProcIds : MergeCreateMeta(p)
    \/ \E p \in ProcIds : MergeUpdateRows(p)
    \/ \E p \in ProcIds : MergeCommit(p)
    \/ \E p \in ProcIds : MergeClear(p)
    \/ \E p \in ProcIds : TombstoneHSet(p)
    \/ \E p \in ProcIds : TombstoneExpire(p)
    \/ \E p \in ProcIds : CancelUpdate(p)
    \/ \E p \in ProcIds : HandlerUnlock(p)

SpecTwoHashes == Init /\ [][NextTwoHashes]_vars

\* users 1 and 2 have each uploaded h1 (init, one chunk, merge); then delete
\* requests of any user arrive at any time
NextDelete ==
    \/ nops = 0 /\ InitExists(1, "h1", "none")
    \/ nops = 1 /\ Quiescent /\ ChunkExists(1, "h1", 0, <<1>>, "none")
    \/ nops = 2 /\ Quiescent /\ MergeLock(1, 1, "h1", 1, "none")
    \/ nops = 3 /\ Quiescent /\ InitExists(2, "h1", "none")
    \/ nops = 4 /\ Quiescent /\ ChunkExists(2, "h1", 0, <<1>>, "none")
    \/ nops = 5 /\ Quiescent /\ MergeLock(2, 2, "h1", 1, "none")
    \/ nops \in {6, 7} /\ \E u \in Users, h \in Hashes, f \in DeleteFaults : DeleteLock(u, h, f)
    \/ nops \in {6, 7} /\ \E u \in Users, h \in Hashes, f \in DeleteFaults : DeleteLockFail(u, h, f)
    \/ \E p \in ProcIds : InitRow(p)
    \/ \E p \in ProcIds : InitLock(p)
    \/ \E p \in ProcIds : InitFind(p)
    \/ \E p \in ProcIds : InitCreate(p)
    \/ \E p \in ProcIds : InitFindRow(p)
    \/ \E p \in ProcIds : InitCreateRow(p)
    \/ \E p \in ProcIds : InitCommit(p)
    \/ \E p \in ProcIds : InitList(p)
    \/ \E p \in ProcIds : ChunkList(p)
    \/ \E p \in ProcIds : ChunkMkdir(p)
    \/ \E p \in ProcIds : ChunkCreate(p)
    \/ \E p \in ProcIds : ChunkCopy(p)
    \/ \E p \in ProcIds : ChunkRename(p)
    \/ \E p \in ProcIds : ChunkRecord(p)
    \/ \E p \in ProcIds : MergeList(p)
    \/ \E p \in ProcIds : MergeCreate(p)
    \/ \E p \in ProcIds : MergeOpen(p)
    \/ \E p \in ProcIds : MergeCopy(p)
    \/ \E p \in ProcIds : MergeRename(p)
    \/ \E p \in ProcIds : RemoveAllTry(p)
    \/ \E p \in ProcIds : RemoveAllOpen(p)
    \/ \E p \in ProcIds : RemoveAllReadDir(p)
    \/ \E p \in ProcIds, n \in DirNames : RemoveAllUnlink(p, n)
    \/ \E p \in ProcIds : RemoveAllRmdir(p)
    \/ \E p \in ProcIds : MergeFindMeta(p)
    \/ \E p \in ProcIds : MergeCreateMeta(p)
    \/ \E p \in ProcIds : MergeRef(p)
    \/ \E p \in ProcIds : MergeUpdateRows(p)
    \/ \E p \in ProcIds : MergeCommit(p)
    \/ \E p \in ProcIds : MergeDeleteFile(p)
    \/ \E p \in ProcIds : MergeClear(p)
    \/ \E p \in ProcIds : TombstoneHSet(p)
    \/ \E p \in ProcIds : TombstoneExpire(p)
    \/ \E p \in ProcIds : DeleteRows(p)
    \/ \E p \in ProcIds : DeleteFindMeta(p)
    \/ \E p \in ProcIds : DeleteRef(p)
    \/ \E p \in ProcIds : DeleteReread(p)
    \/ \E p \in ProcIds : DeleteRemove(p)
    \/ \E p \in ProcIds : DeleteMeta(p)
    \/ \E p \in ProcIds : DeleteCommit(p)
    \/ \E p \in ProcIds : DeleteDeleteTombstone(p)
    \/ \E p \in ProcIds : TxDeadlock(p)
    \/ \E p \in ProcIds : HandlerUnlock(p)

SpecDelete == Init /\ [][NextDelete]_vars

\* user 1 opens a session of h1 and uploads two chunks of any index and
\* payload, one after the other; then two merge requests of the session with
\* any contentId, total and store failure, the second at any time
NextRetry ==
    \/ nops = 0 /\ InitExists(1, "h1", "none")
    \/ nops \in {1, 2} /\ Quiescent /\ \E i \in ChunkIdx, b \in Payloads : ChunkExists(1, "h1", i, b, "none")
    \/ nops \in {3, 4} /\ Quiescent /\ \E c \in ContentIds, t \in Totals, f \in MergeFaults :
          MergeLock(1, c, "h1", t, f)
    \/ nops = 4 /\ \E c \in ContentIds, t \in Totals, f \in MergeFaults :
          MergeLockFail(1, c, "h1", t, f)
    \/ \E p \in ProcIds : InitRow(p)
    \/ \E p \in ProcIds : InitLock(p)
    \/ \E p \in ProcIds : InitFind(p)
    \/ \E p \in ProcIds : InitCreate(p)
    \/ \E p \in ProcIds : InitFindRow(p)
    \/ \E p \in ProcIds : InitCreateRow(p)
    \/ \E p \in ProcIds : InitCommit(p)
    \/ \E p \in ProcIds : InitList(p)
    \/ \E p \in ProcIds : ChunkList(p)
    \/ \E p \in ProcIds : ChunkMkdir(p)
    \/ \E p \in ProcIds : ChunkCreate(p)
    \/ \E p \in ProcIds : ChunkCopy(p)
    \/ \E p \in ProcIds : ChunkRename(p)
    \/ \E p \in ProcIds : ChunkRemove(p)
    \/ \E p \in ProcIds : ChunkRecord(p)
    \/ \E p \in ProcIds : MergeList(p)
    \/ \E p \in ProcIds : MergeCreate(p)
    \/ \E p \in ProcIds : MergeOpen(p)
    \/ \E p \in ProcIds : MergeCopy(p)
    \/ \E p \in ProcIds : MergeRename(p)
    \/ \E p \in ProcIds : MergeRemoveTmp(p)
    \/ \E p \in ProcIds : RemoveAllTry(p)
    \/ \E p \in ProcIds : RemoveAllOpen(p)
    \/ \E p \in ProcIds : RemoveAllReadDir(p)
    \/ \E p \in ProcIds, n \in DirNames : RemoveAllUnlink(p, n)
    \/ \E p \in ProcIds : RemoveAllRmdir(p)
    \/ \E p \in ProcIds : MergeFindMeta(p)
    \/ \E p \in ProcIds : MergeCreateMeta(p)
    \/ \E p \in ProcIds : MergeUpdateRows(p)
    \/ \E p \in ProcIds : MergeCommit(p)
    \/ \E p \in ProcIds : MergeDeleteFile(p)
    \/ \E p \in ProcIds : MergeClear(p)
    \/ \E p \in ProcIds : TombstoneHSet(p)
    \/ \E p \in ProcIds : TombstoneExpire(p)
    \/ \E p \in ProcIds : HandlerUnlock(p)

SpecRetry == Init /\ [][NextRetry]_vars

\* the requests that follow the cancel of a session
MaxAfterCancel == 3

\* user 1 opens a session of h1, uploads a chunk and cancels the session;
\* then MaxAfterCancel uploadChunk and init requests of the session, with any
\* index, payload and failure of a tombstone read, are served one after
\* another; Redis drops the tombstone when its TTL has elapsed
NextCancel ==
    \/ nops = 0 /\ InitExists(1, "h1", "none")
    \/ nops = 1 /\ Quiescent /\ \E i \in ChunkIdx, b \in Payloads : ChunkExists(1, "h1", i, b, "none")
    \/ nops = 2 /\ Quiescent /\ CancelLock(1, "h1", 1, "none")
    \/ nops \in 3..(MaxAfterCancel + 2) /\ Quiescent /\ \E i \in ChunkIdx, b \in Payloads, f \in ChunkFaults :
          ChunkExists(1, "h1", i, b, f)
    \/ nops \in 3..(MaxAfterCancel + 2) /\ Quiescent /\ \E f \in ReadFaults : InitExists(1, "h1", f)
    \/ \E p \in ProcIds : InitHGet(p)
    \/ \E p \in ProcIds : InitDeleteTombstone(p)
    \/ \E p \in ProcIds : InitRow(p)
    \/ \E p \in ProcIds : InitLock(p)
    \/ \E p \in ProcIds : InitFind(p)
    \/ \E p \in ProcIds : InitCreate(p)
    \/ \E p \in ProcIds : InitFindRow(p)
    \/ \E p \in ProcIds : InitCreateRow(p)
    \/ \E p \in ProcIds : InitUpdateRow(p)
    \/ \E p \in ProcIds : InitCommit(p)
    \/ \E p \in ProcIds : InitList(p)
    \/ \E p \in ProcIds : ChunkHGet(p)
    \/ \E p \in ProcIds : ChunkList(p)
    \/ \E p \in ProcIds : ChunkMkdir(p)
    \/ \E p \in ProcIds : ChunkCreate(p)
    \/ \E p \in ProcIds : ChunkCopy(p)
    \/ \E p \in ProcIds : ChunkRename(p)
    \/ \E p \in ProcIds : ChunkRemove(p)
    \/ \E p \in ProcIds : ChunkRecord(p)
    \/ \E p \in ProcIds : RemoveAllTry(p)
    \/ \E p \in ProcIds : RemoveAllOpen(p)
    \/ \E p \in ProcIds : RemoveAllReadDir(p)
    \/ \E p \in ProcIds, n \in DirNames : RemoveAllUnlink(p, n)
    \/ \E p \in ProcIds : RemoveAllRmdir(p)
    \/ \E p \in ProcIds : TombstoneHSet(p)
    \/ \E p \in ProcIds : TombstoneExpire(p)
    \/ \E p \in ProcIds : CancelUpdate(p)
    \/ \E p \in ProcIds : HandlerUnlock(p)
    \/ \E k \in DOMAIN tombstones : ExpireTombstone(k)

SpecCancel == Init /\ [][NextCancel]_vars

\* the requests that follow the restart of the process
MaxAfterRestart == 3

\* user 1 opens a session of h1 and uploads a chunk; the process stops, at
\* any step of that upload or after it, and starts again; then
\* MaxAfterRestart uploadChunk and init requests of the session, with any
\* index, payload and failure of a tombstone read, are served one after
\* another; Redis drops the tombstone when its TTL has elapsed
NextRestart ==
    \/ nops = 0 /\ InitExists(1, "h1", "none")
    \/ nops = 1 /\ Quiescent /\ \E i \in ChunkIdx, b \in Payloads : ChunkExists(1, "h1", i, b, "none")
    \/ nops \in 3..(MaxAfterRestart + 2) /\ Quiescent /\ \E i \in ChunkIdx, b \in Payloads, f \in ChunkFaults :
          ChunkExists(1, "h1", i, b, f)
    \/ nops \in 3..(MaxAfterRestart + 2) /\ Quiescent /\ \E f \in ReadFaults : InitExists(1, "h1", f)
    \/ \E p \in ProcIds : InitHGet(p)
    \/ \E p \in ProcIds : InitDeleteTombstone(p)
    \/ \E p \in ProcIds : InitRow(p)
    \/ \E p \in ProcIds : InitLock(p)
    \/ \E p \in ProcIds : InitFind(p)
    \/ \E p \in ProcIds : InitCreate(p)
    \/ \E p \in ProcIds : InitFindRow(p)
    \/ \E p \in ProcIds : InitCreateRow(p)
    \/ \E p \in ProcIds : InitUpdateRow(p)
    \/ \E p \in ProcIds : InitCommit(p)
    \/ \E p \in ProcIds : InitList(p)
    \/ \E p \in ProcIds : ChunkHGet(p)
    \/ \E p \in ProcIds : ChunkList(p)
    \/ \E p \in ProcIds : ChunkMkdir(p)
    \/ \E p \in ProcIds : ChunkCreate(p)
    \/ \E p \in ProcIds : ChunkCopy(p)
    \/ \E p \in ProcIds : ChunkRename(p)
    \/ \E p \in ProcIds : ChunkRemove(p)
    \/ \E p \in ProcIds : ChunkRecord(p)
    \/ \E p \in ProcIds : HandlerUnlock(p)
    \/ nops = 2 /\ LoadTombstonesOnStartup
    \/ \E k \in DOMAIN tombstones : ExpireTombstone(k)

SpecRestart == Init /\ [][NextRestart]_vars

\* ------------------------------------------------------------------ the lock API, call by call

\* the keys the lock objects are made for, and the TTLs in ticks
LockKeys == {LockKey("merge", u, h) : u \in Users, h \in Hashes}
TTLs == 1..MaxTTL

\* the answer of a call on lock object `p`
LockRes(op, p, status, ttl) ==
    [op |-> op, owner |-> p, key |-> procs[p].key, ttl |-> ttl, status |-> status,
     won |-> procs[p].won]

\* NewLock(key, ttl): a lock object with a value of its own
NewLock(p, key, ttl) ==
    /\ p \notin DOMAIN procs
    /\ procs' = Put(procs, p, [key |-> key, ttl |-> ttl, won |-> FALSE])
    /\ UNCHANGED <<msVars, csVars, bsVars, res, nops>>

\* l.TryLock(ctx): SET key value NX PX ttl
LockTryLock(p) ==
    /\ nops < MaxOps
    /\ p \in DOMAIN procs
    /\ LET key == procs[p].key
           ok == key \notin DOMAIN locks
       IN /\ locks' = TryLock(locks, key, p, procs[p].ttl)
          /\ procs' = [procs EXCEPT ![p].won = @ \/ ok]
          /\ res' = LockRes("trylock", p, IF ok THEN "ok" ELSE "busy", procs[p].ttl)
    /\ nops' = nops + 1
    /\ UNCHANGED <<msVars, tombstones, csChunks, bsVars>>

\* l.Unlock(ctx)
LockUnlock(p) ==
    /\ nops < MaxOps
    /\ p \in DOMAIN procs
    /\ locks' = Unlock(locks, procs[p].key, p)
    /\ res' = LockRes("unlock", p, LockResult(locks, procs[p].key, p), 0)
    /\ nops' = nops + 1
    /\ UNCHANGED <<msVars, tombstones, csChunks, bsVars, procs>>

\* l.Extend(ctx, ttl)
LockExtend(p, ttl) ==
    /\ nops < MaxOps
    /\ p \in DOMAIN procs
    /\ locks' = Extend(locks, procs[p].key, p, ttl)
    /\ res' = LockRes("extend", p, LockResult(locks, procs[p].key, p), ttl)
    /\ nops' = nops + 1
    /\ UNCHANGED <<msVars, tombstones, csChunks, bsVars, procs>>

\* a tick of the Redis clock: every TTL runs down, a key at zero is dropped
LockTick ==
    /\ DOMAIN locks # {}
    /\ locks' = [k \in {x \in DOMAIN locks : locks[x].ttl > 1} |->
                    [locks[k] EXCEPT !.ttl = @ - 1]]
    /\ UNCHANGED <<msVars, tombstones, csChunks, bsVars, procs, res, nops>>

NextLock ==
    \/ \E p \in ProcIds, k \in LockKeys, t \in TTLs : NewLock(p, k, t)
    \/ \E p \in ProcIds : LockTryLock(p)
    \/ \E p \in ProcIds : LockUnlock(p)
    \/ \E p \in ProcIds, t \in TTLs : LockExtend(p, t)
    \/ LockTick

SpecLock == Init /\ [][NextLock]_vars

\* ------------------------------------------------------------------ parseRangeHeader on its own

\* the file sizes a Range header is parsed against, the empty file included
MaxFileSize == 3

\* DownloadFile hands a Range header to the parser only when it is not empty
SentRangeHeaders == {hdr \in RangeHeaders : hdr.kind # "none"}

\* a Range header that was sent and a file size are about to be parsed
InitRange ==
    /\ contents = <<>>
    /\ userContents = <<>>
    /\ fileMetas = Empty
    /\ tombstones = Empty
    /\ csChunks = Empty
    /\ locks = Empty
    /\ chunkDirs = {}
    /\ scratch = Empty
    /\ chunkTmp = Empty
    /\ blobs = Empty
    /\ blobTmp = Empty
    /\ orphans = Empty
    /\ procs = Empty
    /\ nops = 0
    /\ \E hdr \in SentRangeHeaders, S \in 0..MaxFileSize :
          res = [Req("parse", 0, "") EXCEPT !.range = hdr, !.size = S]

\* parseRangeHeader(rangeHeader, fileSize) as DownloadFile calls it, on a
\* header that is not empty
ParseRange ==
    LET pr == parseRangeHeader(res.range, res.size)
    IN /\ nops = 0
       /\ nops' = 1
       /\ res' = IF pr.ok
                 THEN [res EXCEPT !.op = "range", !.status = "partial",
                                  !.rangeStart = pr.start, !.rangeEnd = pr.end,
                                  !.rangeLength = pr.end - pr.start + 1]
                 ELSE [res EXCEPT !.op = "range", !.status = "range_invalid"]
       /\ UNCHANGED <<msVars, csVars, bsVars, procs>>

SpecRange == InitRange /\ [][ParseRange]_vars

\* ------------------------------------------------------------------ the blocking Lock

\* maxRetries of NewLock (100 in the source), scaled down
MaxRetries == 3

\* a loop that gives up with nil
LockAttemptNilWhenBusy(lk, key, owner, ttl, i, ctxDone, csErr, applied) ==
    IF ctxDone
    THEN [result |-> "ErrLockTimeout", locks |-> lk, i |-> i, tried |-> FALSE]
    ELSE IF csErr
    THEN [result |-> "cs_error", locks |-> IF applied THEN TryLock(lk, key, owner, ttl) ELSE lk,
          i |-> i, tried |-> TRUE]
    ELSE [result |-> "nil", locks |-> TryLock(lk, key, owner, ttl), i |-> i, tried |-> TRUE]

\* an iteration of the loop of Lock that has made `i` attempts so far: the
\* context is tested first, then TryLock; `applied` tells whether a SetNX that
\* returned an error had set the key
LockAttempt(lk, key, owner, ttl, i, ctxDone, csErr, applied) ==
    IF ctxDone
    THEN [result |-> "ErrLockTimeout", locks |-> lk, i |-> i, tried |-> FALSE]
    ELSE IF csErr
    THEN [result |-> "cs_error", locks |-> IF applied THEN TryLock(lk, key, owner, ttl) ELSE lk,
          i |-> i, tried |-> TRUE]
    ELSE IF key \notin DOMAIN lk
    THEN [result |-> "nil", locks |-> TryLock(lk, key, owner, ttl), i |-> i, tried |-> TRUE]
    ELSE [result |-> "", locks |-> lk, i |-> i + 1, tried |-> TRUE]

\* lock.Lock(ctx) is called on a new lock object
LoopBegin(p, key, ttl) ==
    /\ p \notin DOMAIN procs
    /\ procs' = Put(procs, p, [key |-> key, ttl |-> ttl, pc |-> "loop", i |-> 0,
                               attempts |-> 0, result |-> "", held |-> FALSE])
    /\ UNCHANGED <<msVars, csVars, bsVars, res, nops>>

\* one iteration of the for loop of Lock while i < maxRetries
LoopAttempt(p, ctxDone, csErr, applied) ==
    /\ p \in DOMAIN procs
    /\ procs[p].pc = "loop"
    /\ procs[p].i < MaxRetries
    /\ LET r == procs[p]
           a == LockAttempt(locks, r.key, p, r.ttl, r.i, ctxDone, csErr, applied)
       IN /\ locks' = a.locks
          /\ procs' = [procs EXCEPT ![p].i = a.i,
                                    ![p].attempts = IF a.tried THEN @ + 1 ELSE @,
                                    ![p].result = a.result,
                                    ![p].pc = IF a.result = "" THEN "loop" ELSE "done",
                                    ![p].held = a.result = "nil"
                                                /\ HoldsLock(a.locks, r.key, p)]
    /\ UNCHANGED <<msVars, tombstones, csChunks, bsVars, res, nops>>

\* the loop ends with i = maxRetries: ErrLockFailed
LoopFail(p) ==
    /\ p \in DOMAIN procs
    /\ procs[p].pc = "loop"
    /\ procs[p].i = MaxRetries
    /\ procs' = [procs EXCEPT ![p].pc = "done", ![p].result = "ErrLockFailed"]
    /\ UNCHANGED <<msVars, csVars, bsVars, res, nops>>

\* the holder releases: the deferred lock.Unlock of a caller that got nil
LoopUnlock(p) ==
    /\ p \in DOMAIN procs
    /\ procs[p].pc = "done"
    /\ procs[p].result = "nil"
    /\ HoldsLock(locks, procs[p].key, p)
    /\ locks' = Unlock(locks, procs[p].key, p)
    /\ UNCHANGED <<msVars, tombstones, csChunks, bsVars, procs, res, nops>>

LoopStep(p) ==
    \/ \E ctxDone \in BOOLEAN, csErr \in BOOLEAN, applied \in BOOLEAN :
          LoopAttempt(p, ctxDone, csErr, applied)
    \/ LoopFail(p)

NextLoop ==
    \/ \E p \in ProcIds, k \in LockKeys, t \in TTLs : LoopBegin(p, k, t)
    \/ \E p \in ProcIds : LoopStep(p)
    \/ \E p \in ProcIds : LoopUnlock(p)
    \/ LockTick

\* a goroutine inside Lock keeps running: time.Sleep returns
SpecLoop == Init /\ [][NextLoop]_vars /\ \A p \in ProcIds : WF_vars(LoopStep(p))
\* ------------------------------------------------------------------ properties

CompletedRowsIn(ucs, h) ==
    {i \in 1..Len(ucs) : ucs[i].hash = h /\ ucs[i].status = COMPLETED}
CompletedRows(h) == CompletedRowsIn(userContents, h)

RefCountIn(fms, h) == IF h \in DOMAIN fms THEN fms[h].refCount ELSE 0
RefCount(h) == RefCountIn(fileMetas, h)

\* the scratch chunk set of (u, h) on BS
ChunkSetOf(sc, u, h) == {k[3] : k \in {x \in DOMAIN sc : x[1] = u /\ x[2] = h}}
ChunkSet(u, h) == ChunkSetOf(scratch, u, h)

\* user u holds a UserContent row of hash h in status st
HasRowIn(ucs, u, h, st) ==
    \E i \in 1..Len(ucs) : ucs[i].user = u /\ ucs[i].hash = h /\ ucs[i].status = st
HasRow(u, h, st) == HasRowIn(userContents, u, h, st)

\* a tombstone of (u, h) with this status is in ts
HasTombstoneIn(ts, u, h, status) == <<u, h>> \in DOMAIN ts /\ ts[<<u, h>>].status = status

\* a request of kind `op` has been answered in the last step: res holds its
\* arguments and its result
Answered(op) == res.op = op /\ res.pc = "done"

\* the request answered in the last step ran with nothing else between its
\* arrival and its answer: res.pre holds the stores it found
Alone(op) == Answered(op) /\ res.solo

\* request p has taken the step from this state to the next
Stepped(p) ==
    /\ p \in DOMAIN procs
    /\ IF p \in DOMAIN procs'
       THEN <<procs'[p].pc, procs'[p].off, procs'[p].srcOff, procs'[p].names>>
               # <<procs[p].pc, procs[p].off, procs[p].srcOff, procs[p].names>>
       ELSE res'.tok = procs[p].tok

\* the chunks 0..n-1 of (u, h) one after another
RECURSIVE Concat(_, _, _, _)
Concat(sc, u, h, n) ==
    IF n <= 0 THEN <<>> ELSE Concat(sc, u, h, n - 1) \o sc[<<u, h, n - 1>>]

\* what a following uploadChunk of (u, h) is told by its tombstone check
ChunkCheck(u, h) == CheckBeforeUploadChunk(CheckTombstone(tombstones, u, h, "none"))

\* C1: in every quiescent state FileMeta(h).refCount equals the number of
\* COMPLETED UserContent rows of h (absent FileMeta counting as 0), and the
\* blob base/h exists iff that number is positive.
C1_DedupRefcount ==
    Quiescent =>
        \A h \in Hashes :
            /\ RefCount(h) = Cardinality(CompletedRows(h))
            /\ FileExists(h) <=> Cardinality(CompletedRows(h)) > 0

\* C2: a step of a delete(u, h), made while some user holds a COMPLETED row of
\* h before and after it, removes neither the FileMeta(h) row nor the blob
\* base/h.
C2_BlobLifetime ==
    [][\A p \in DOMAIN procs :
          (/\ procs[p].op = "delete"
           /\ Stepped(p)
           /\ CompletedRowsIn(userContents, procs[p].hash) # {}
           /\ CompletedRowsIn(userContents', procs[p].hash) # {})
          => /\ procs[p].hash \in DOMAIN fileMetas => procs[p].hash \in DOMAIN fileMetas'
             /\ procs[p].hash \in DOMAIN blobs => procs[p].hash \in DOMAIN blobs']_vars

\* the stores a cold upload's merge finds: the caller's init created Content
\* and UserContent, the scratch holds exactly the chunks 0..total-1, the hash
\* has no FileMeta
ColdUploadReady(r) ==
    /\ r.total >= 1
    /\ FirstContent(r.pre.contents, r.user, r.hash) = r.cid
    /\ FirstUserContent(r.pre.userContents, r.user, r.cid) # 0
    /\ ChunkSetOf(r.pre.scratch, r.user, r.hash) = 0..(r.total - 1)
    /\ r.hash \notin DOMAIN r.pre.fileMetas

\* C3: cold upload.  A merge(total) that meets no store failure and no other
\* request, by a user whose init created the UserContent, whose scratch holds
\* exactly the chunks 0..total-1 and whose hash has no FileMeta yet, succeeds;
\* the blob is the chunks in ascending order, the size is the sum of the chunk
\* lengths, the UserContent is COMPLETED with this hash, FileMeta has refCount
\* 1, the scratch is empty and a completed tombstone exists.
C3_ColdUpload ==
    (Alone("merge") /\ res.fault = "none" /\ ColdUploadReady(res))
    => LET u == res.user
           h == res.hash
           bytes == Concat(res.pre.scratch, u, h, res.total)
       IN /\ res.status = "completed"
          /\ res.size = Len(bytes)
          /\ h \in DOMAIN blobs
          /\ blobs[h] = bytes
          /\ \E j \in 1..Len(userContents) :
                userContents[j].user = u /\ userContents[j].cid = res.cid
          /\ \A j \in 1..Len(userContents) :
                (userContents[j].user = u /\ userContents[j].cid = res.cid)
                => (userContents[j].status = COMPLETED /\ userContents[j].hash = h)
          /\ h \in DOMAIN fileMetas
          /\ fileMetas[h].refCount = 1
          /\ fileMetas[h].size = Len(bytes)
          /\ ChunkSet(u, h) = {}
          /\ HasTombstoneIn(tombstones, u, h, "completed")

\* a two-chunk cold upload has completed: the blob is chunk 0 then chunk 1
C3_Witness ==
    /\ Alone("merge")
    /\ res.fault = "none"
    /\ ColdUploadReady(res)
    /\ res.status = "completed"
    /\ res.total = 2
    /\ res.pre.scratch[<<res.user, res.hash, 0>>] = <<1>>
    /\ res.pre.scratch[<<res.user, res.hash, 1>>] = <<2, 3>>
    /\ blobs[res.hash] = <<1, 2, 3>>
    /\ RefCount(res.hash) = 1

\* C4: init(U2, H) when another user completed H (FileMeta(H) with refCount 1
\* and the blob exist) and U2 has no row, content or tombstone of H returns
\* fast_upload with a content id and FileMeta(H).refCount becomes 2.
C4_CrossUserFastUpload ==
    (/\ Alone("init")
     /\ res.fault = "none"
     /\ \E i \in 1..Len(res.pre.userContents) :
           /\ res.pre.userContents[i].user # res.user
           /\ res.pre.userContents[i].hash = res.hash
           /\ res.pre.userContents[i].status = COMPLETED
     /\ \A i \in 1..Len(res.pre.userContents) : res.pre.userContents[i].user # res.user
     /\ \A i \in 1..Len(res.pre.contents) : res.pre.contents[i].owner # res.user
     /\ <<res.user, res.hash>> \notin DOMAIN res.pre.tombstones
     /\ RefCountIn(res.pre.fileMetas, res.hash) = 1
     /\ res.hash \in DOMAIN res.pre.blobs)
    => /\ res.status = "fast_upload"
       /\ res.cid > 0
       /\ RefCount(res.hash) = 2

\* C5: the merge requests of one (user, hash), in whatever way their steps
\* interleave and whether or not the lock key expires under a running merge,
\* add 1 to FileMeta(hash).refCount between them: where every merge is of the
\* same (user, hash) the count never exceeds 1.
C5_AtMostOneMergeEffect == \A h \in Hashes : RefCount(h) <= 1

\* C6 (as claimed): a merge(total), total >= 1, that meets no store failure
\* and gets its lock succeeds iff every index of 0..total-1 is in the scratch
\* chunk set, whatever else the set holds.
C6_MergeIffAllPresent ==
    (Alone("merge") /\ res.fault = "none" /\ res.status # "lock_failed" /\ res.total >= 1)
    => (res.status = "completed"
        <=> (0..(res.total - 1)) \subseteq ChunkSetOf(res.pre.scratch, res.user, res.hash))

\* C6 (amended): a merge that meets no store failure and gets its lock
\* succeeds iff total >= 1 and the scratch chunk set is exactly {0..total-1}.
C6_MergeIffExactSet ==
    (Alone("merge") /\ res.fault = "none" /\ res.status # "lock_failed")
    => (res.status = "completed"
        <=> (/\ res.total >= 1
             /\ ChunkSetOf(res.pre.scratch, res.user, res.hash) = 0..(res.total - 1)))

\* a merge was refused although every index of 0..total-1 is on BS
C6_Witness ==
    /\ Alone("merge")
    /\ res.fault = "none"
    /\ res.status = "missing_chunks"
    /\ res.total >= 1
    /\ (0..(res.total - 1)) \subseteq ChunkSetOf(res.pre.scratch, res.user, res.hash)
    /\ ChunkSetOf(res.pre.scratch, res.user, res.hash) # 0..(res.total - 1)

\* C7: whenever an index of 0..total-1, total >= 1, is absent from the
\* scratch chunk set, merge returns MISSING_CHUNKS and reports exactly
\* {0..total-1} minus the present indices.
C7_ExactMissingSet ==
    LET missing == (0..(res.total - 1)) \ ChunkSetOf(res.pre.scratch, res.user, res.hash)
    IN (/\ Alone("merge")
        /\ res.status # "lock_failed"
        /\ res.total >= 1
        /\ missing # {})
       => /\ res.status = "missing_chunks"
          /\ res.out # <<>>
          /\ SeqToSet(res.out) = missing

\* C8: with no tombstone for (user, hash), an uploadChunk of an index that is
\* not stored stores the payload, and an uploadChunk of an index that is
\* stored returns chunk_exists and changes nothing (the stored chunk, MS, CS
\* and the blobs), so repeating the call never changes what a merge would read.
C8_IdempotentChunk ==
    (/\ Alone("chunk")
     /\ res.fault # "bs_copy"
     /\ <<res.user, res.hash>> \notin DOMAIN res.pre.tombstones)
    => LET k == <<res.user, res.hash, res.idx>>
       IN IF k \in DOMAIN res.pre.scratch
          THEN /\ res.status = "chunk_exists"
               /\ scratch = res.pre.scratch
               /\ <<contents, userContents, fileMetas>>
                    = <<res.pre.contents, res.pre.userContents, res.pre.fileMetas>>
               /\ <<tombstones, csChunks>> = <<res.pre.tombstones, res.pre.csChunks>>
               /\ <<blobs, blobTmp>> = <<res.pre.blobs, res.pre.blobTmp>>
          ELSE IF res.payload # <<>>
          THEN /\ res.status = "chunk_uploaded"
               /\ DOMAIN scratch = (DOMAIN res.pre.scratch) \cup {k}
               /\ scratch[k] = res.payload
               /\ \A x \in DOMAIN res.pre.scratch : scratch[x] = res.pre.scratch[x]
          ELSE /\ res.status = "write_failed"
               /\ scratch = res.pre.scratch

\* a repeated uploadChunk with another payload answered chunk_exists and the
\* chunk stored first is still there
C8_Witness ==
    /\ Alone("chunk")
    /\ res.status = "chunk_exists"
    /\ res.prev.op = "chunk"
    /\ res.prev.status = "chunk_uploaded"
    /\ <<res.user, res.hash>> \notin DOMAIN res.pre.tombstones
    /\ <<res.user, res.hash, res.idx>> \in DOMAIN scratch
    /\ scratch[<<res.user, res.hash, res.idx>>] # res.payload
    /\ HasRow(res.user, res.hash, UPLOADING)

\* C9: in every quiescent state a completed tombstone of (user, hash) implies
\* that FileMeta(hash) exists and BS holds base/hash.
C9_TombstoneConsistency ==
    Quiescent =>
        \A k \in DOMAIN tombstones :
            tombstones[k].status = "completed"
            => (k[2] \in DOMAIN fileMetas /\ FileExists(k[2]))

\* C10: an init that finds a completed tombstone of (user, hash) while BS
\* lacks base/hash never returns fast_upload; when it gets its lock it deletes
\* the tombstone, leaves the UserContent UPLOADING, returns new or resumable,
\* and the tombstone check of a following uploadChunk passes.
C10_StaleTombstoneRepair ==
    (/\ Alone("init")
     /\ res.fault # "cs_check"
     /\ HasTombstoneIn(res.pre.tombstones, res.user, res.hash, "completed")
     /\ res.hash \notin DOMAIN res.pre.blobs)
    => /\ res.status # "fast_upload"
       /\ res.status # "lock_failed"
          => /\ <<res.user, res.hash>> \notin DOMAIN tombstones
             /\ res.status \in {"new", "resumable"}
             /\ \E j \in 1..Len(userContents) :
                   /\ userContents[j].user = res.user
                   /\ userContents[j].cid = res.cid
                   /\ userContents[j].status = UPLOADING
             /\ ChunkCheck(res.user, res.hash) = "ok"

\* C11: in every quiescent state every completed tombstone carries no expiry,
\* whichever operation wrote it, and every cancelled tombstone carries one.
C11_TombstoneTTL ==
    Quiescent =>
        \A k \in DOMAIN tombstones :
            /\ tombstones[k].status = "completed" => ~tombstones[k].ttl
            /\ tombstones[k].status = "cancelled" => tombstones[k].ttl

\* what an init that starts a session over answers: the tombstone is gone,
\* the UserContent is UPLOADING again, the answer is new with no uploaded
\* chunk, and the tombstone check of uploadChunk passes
InitRestartsSession ==
    /\ <<res.user, res.hash>> \notin DOMAIN tombstones
    /\ res.status = "new"
    /\ res.out = <<>>
    /\ \E j \in 1..Len(userContents) :
          /\ userContents[j].user = res.user
          /\ userContents[j].cid = res.cid
          /\ userContents[j].hash = res.hash
          /\ userContents[j].status = UPLOADING
    /\ ChunkCheck(res.user, res.hash) = "ok"

\* what an init that gets its lock does for the session, whatever it knows of
\* the tombstone: the UserContent is UPLOADING, the answer lists the chunks it
\* found on BS in ascending order, new when there is none and resumable
\* otherwise
InitReopensSession ==
    /\ res.out = SetToSortedSeq(ChunkSetOf(res.pre.scratch, res.user, res.hash))
    /\ res.status = IF ChunkSetOf(res.pre.scratch, res.user, res.hash) = {}
                    THEN "new" ELSE "resumable"
    /\ \E j \in 1..Len(userContents) :
          /\ userContents[j].user = res.user
          /\ userContents[j].cid = res.cid
          /\ userContents[j].hash = res.hash
          /\ userContents[j].status = UPLOADING

\* the request answered last has read a cancelled tombstone of its session:
\* the key was there and neither round trip of CheckTombstone failed
SawCancelledTombstone ==
    /\ res.fault \notin {"cs_check", "cs_hget"}
    /\ HasTombstoneIn(res.pre.tombstones, res.user, res.hash, "cancelled")

\* the tombstone of the session of the init answered last: deleted when the
\* init has read it, after which the tombstone check of uploadChunk passes;
\* left as it was when the read failed or the key had expired
InitSettlesTombstone ==
    IF SawCancelledTombstone
    THEN /\ <<res.user, res.hash>> \notin DOMAIN tombstones
         /\ ChunkCheck(res.user, res.hash) = "ok"
    ELSE tombstones = res.pre.tombstones

\* the uploadChunk answered last was rejected with UPLOAD_CANCELLED and has
\* stored nothing
ChunkRejected ==
    /\ res.status = "cancelled"
    /\ <<chunkDirs, scratch, chunkTmp, csChunks>>
         = <<res.pre.chunkDirs, res.pre.scratch, res.pre.chunkTmp, res.pre.csChunks>>

\* the uploadChunk answered last was handled as in an open session: a chunk
\* that is not yet on BS is stored, unless WriteChunk fails or the body is
\* empty; a chunk that is on BS is left as it is
ChunkAccepted ==
    LET k == <<res.user, res.hash, res.idx>>
    IN /\ res.status \in {"chunk_uploaded", "chunk_exists", "write_failed"}
       /\ res.status = "chunk_exists" <=> k \in DOMAIN res.pre.scratch
       /\ res.status = "write_failed"
             <=> (k \notin DOMAIN res.pre.scratch
                  /\ (res.fault = "bs_copy" \/ res.payload = <<>>))
       /\ res.status = "chunk_uploaded" => (k \in DOMAIN scratch /\ scratch[k] = res.payload)

\* the request of kind `op` answered last was served alone on a session that
\* a cancel has moved to CANCELLED and no init has opened again
OnCancelled(op) ==
    /\ Alone(op)
    /\ HasRowIn(res.pre.userContents, res.user, res.hash, CANCELLED)

\* C12 (as claimed): once a cancel has moved the session of (user, hash) to
\* CANCELLED, every uploadChunk of the session is rejected with
\* UPLOAD_CANCELLED until the next init, and the next init deletes the
\* tombstone, sets the UserContent back to UPLOADING and answers new with an
\* empty list, after which uploadChunk is accepted.
C12_CancelThenReupload ==
    /\ OnCancelled("chunk") => res.status = "cancelled"
    /\ OnCancelled("init") => InitRestartsSession

\* C12 (amended): a successful cancel of an UPLOADING session leaves the row
\* CANCELLED, a cancelled tombstone with an expiry and no scratch chunk.  Until
\* the next init an uploadChunk of the session is rejected with
\* UPLOAD_CANCELLED and stores nothing when it reads the cancelled tombstone,
\* and is handled as in an open session when the tombstone has expired or its
\* read fails.  The next init sets the row back to UPLOADING and answers new
\* with an empty list when BS holds no chunk of the session, resumable with
\* the chunks stored since the cancel otherwise; it deletes the tombstone
\* when it reads it and leaves it when the read fails.
C12_CancelWhileTombstone ==
    /\ (/\ Alone("cancel")
        /\ res.status = "cancelled"
        /\ \E i \in 1..Len(res.pre.userContents) :
              /\ res.pre.userContents[i].user = res.user
              /\ res.pre.userContents[i].cid = res.cid
              /\ res.pre.userContents[i].hash = res.hash
              /\ res.pre.userContents[i].status = UPLOADING)
       => /\ HasTombstoneIn(tombstones, res.user, res.hash, "cancelled")
          /\ tombstones[<<res.user, res.hash>>].ttl
          /\ \A j \in 1..Len(userContents) :
                (userContents[j].user = res.user /\ userContents[j].cid = res.cid)
                => userContents[j].status = CANCELLED
          /\ ChunkSet(res.user, res.hash) = {}
    /\ OnCancelled("chunk")
       => IF SawCancelledTombstone THEN ChunkRejected ELSE ChunkAccepted
    /\ OnCancelled("init")
       => /\ InitReopensSession
          /\ InitSettlesTombstone

\* the whole of it in one run: after the cancel an uploadChunk whose
\* tombstone read failed has stored its chunk, a later uploadChunk was
\* rejected with UPLOAD_CANCELLED, and the init that followed has deleted the
\* tombstone, set the row to UPLOADING and answered resumable with that chunk
C12_Witness ==
    /\ OnCancelled("init")
    /\ SawCancelledTombstone
    /\ res.status = "resumable"
    /\ res.out # <<>>
    /\ res.prev.op = "chunk"
    /\ res.prev.status = "cancelled"
    /\ res.prev.user = res.user
    /\ res.prev.hash = res.hash
    /\ <<res.user, res.hash>> \notin DOMAIN tombstones
    /\ HasRow(res.user, res.hash, UPLOADING)
    /\ ChunkCheck(res.user, res.hash) = "ok"

\* The cases in which a cancelled session departs from "rejected until the next
\* init, then new with an empty list", each reached in SpecCancel:
\* the tombstone has expired and the uploadChunk is stored without any init
CancelledChunkAfterExpiry ==
    /\ OnCancelled("chunk")
    /\ <<res.user, res.hash>> \notin DOMAIN res.pre.tombstones
    /\ res.status = "chunk_uploaded"

\* the tombstone is there, its read fails and the uploadChunk is stored
CancelledChunkOnFailedRead ==
    /\ OnCancelled("chunk")
    /\ HasTombstoneIn(res.pre.tombstones, res.user, res.hash, "cancelled")
    /\ res.fault \in {"cs_check", "cs_hget"}
    /\ res.status = "chunk_uploaded"

\* the init reads the tombstone and answers resumable with a chunk stored
\* since the cancel
CancelledInitResumable ==
    /\ OnCancelled("init")
    /\ SawCancelledTombstone
    /\ res.status = "resumable"
    /\ res.out # <<>>

\* the read of the init fails: the session is UPLOADING again, the tombstone
\* is still there and uploadChunk is still rejected
CancelledInitKeepsTombstone ==
    /\ OnCancelled("init")
    /\ res.fault \in {"cs_check", "cs_hget"}
    /\ res.status \in {"new", "resumable"}
    /\ HasTombstoneIn(tombstones, res.user, res.hash, "cancelled")
    /\ HasRow(res.user, res.hash, UPLOADING)
    /\ ChunkCheck(res.user, res.hash) = "cancelled"

\* reconciliation leaves a cancelled tombstone for every session that is UPLOADING
StartupMarksCancelled ==
    Answered("startup")
    => \A u \in Users, h \in Hashes :
          HasRowIn(res.pre.userContents, u, h, UPLOADING)
          => HasTombstoneIn(tombstones, u, h, "cancelled")

\* the request of kind `op` answered last was served alone, as the first
\* request after a restart, on a session that is UPLOADING
AfterRestart(op) ==
    /\ Alone(op)
    /\ res.prev.op = "startup"
    /\ HasRowIn(res.pre.userContents, res.user, res.hash, UPLOADING)

\* the request of kind `op` answered last was served alone on a session that
\* is UPLOADING
OnUploading(op) ==
    /\ Alone(op)
    /\ HasRowIn(res.pre.userContents, res.user, res.hash, UPLOADING)

\* C13 (as claimed): after a restart with a session (user, hash) UPLOADING a
\* cancelled tombstone exists, the uploadChunk that follows the restart is
\* rejected with UPLOAD_CANCELLED, and the init that follows the restart
\* clears the tombstone and starts the session over: it answers new with an
\* empty list.
C13_RestartReconciliation ==
    /\ StartupMarksCancelled
    /\ AfterRestart("chunk") => res.status = "cancelled"
    /\ AfterRestart("init") => InitRestartsSession

\* C13 (amended): after a restart with a session (user, hash) UPLOADING a
\* cancelled tombstone with an expiry exists.  An uploadChunk of the session
\* is rejected with UPLOAD_CANCELLED and stores nothing when it reads the
\* cancelled tombstone, and is handled as in an open session when the
\* tombstone has expired or its read fails.  An init on the tombstone leaves
\* the row UPLOADING and answers new with an empty list when BS holds no
\* chunk of the session, resumable with the chunks on BS (those from before
\* the restart included) otherwise; it deletes the tombstone when it reads
\* it and leaves it when the read fails.
C13_RestartWhileTombstone ==
    /\ StartupMarksCancelled
    /\ Answered("startup")
       => \A u \in Users, h \in Hashes :
             HasRowIn(res.pre.userContents, u, h, UPLOADING)
             => tombstones[<<u, h>>].ttl
    /\ OnUploading("chunk")
       => IF SawCancelledTombstone THEN ChunkRejected ELSE ChunkAccepted
    /\ (/\ OnUploading("init")
        /\ HasTombstoneIn(res.pre.tombstones, res.user, res.hash, "cancelled"))
       => /\ InitReopensSession
          /\ InitSettlesTombstone

\* the whole of it in one run: the process restarted on a session that was
\* UPLOADING, an uploadChunk was rejected with UPLOAD_CANCELLED on the tombstone
\* of the reconciliation, and the init that followed has deleted the tombstone,
\* left the row UPLOADING and answered resumable with the chunks found on BS
C13_Witness ==
    /\ OnUploading("init")
    /\ SawCancelledTombstone
    /\ res.status = "resumable"
    /\ res.out # <<>>
    /\ res.prev.op = "chunk"
    /\ res.prev.status = "cancelled"
    /\ res.prev.user = res.user
    /\ res.prev.hash = res.hash
    /\ <<res.user, res.hash>> \notin DOMAIN tombstones
    /\ HasRow(res.user, res.hash, UPLOADING)
    /\ ChunkCheck(res.user, res.hash) = "ok"


\* The cases in which a session interrupted by a restart departs from "rejected
\* until a fresh init, then started over", each reached in SpecRestart:
\* the first uploadChunk after the restart is stored, the tombstone having
\* expired
RestartedChunkAfterExpiry ==
    /\ AfterRestart("chunk")
    /\ <<res.user, res.hash>> \notin DOMAIN res.pre.tombstones
    /\ res.status = "chunk_uploaded"

\* the first uploadChunk after the restart is stored, its read of the
\* tombstone having failed
RestartedChunkOnFailedRead ==
    /\ AfterRestart("chunk")
    /\ HasTombstoneIn(res.pre.tombstones, res.user, res.hash, "cancelled")
    /\ res.fault \in {"cs_check", "cs_hget"}
    /\ res.status = "chunk_uploaded"

\* the first init after the restart reads the tombstone and answers resumable
\* with the chunk stored before the restart
RestartedInitResumable ==
    /\ AfterRestart("init")
    /\ SawCancelledTombstone
    /\ res.status = "resumable"
    /\ res.out # <<>>

\* the read of the first init after the restart fails: the tombstone is still
\* there and uploadChunk is still rejected
RestartedInitKeepsTombstone ==
    /\ AfterRestart("init")
    /\ res.fault \in {"cs_check", "cs_hget"}
    /\ res.status \in {"new", "resumable"}
    /\ HasTombstoneIn(tombstones, res.user, res.hash, "cancelled")
    /\ ChunkCheck(res.user, res.hash) = "cancelled"

\* C14: Unlock and Extend called with owner token t change the key only when
\* the key stores t, and answer ErrLockNotHeld otherwise: a holder whose lock
\* expired and was won by another leaves the other's lock in place
C14_OwnerOnlyRelease ==
    [][(nops' = nops + 1 /\ res'.op \in {"unlock", "extend"}) =>
          LET k == res'.key
              p == res'.owner
          IN IF k \in DOMAIN locks /\ locks[k].owner = p
             THEN /\ res'.status = "ok"
                  /\ res'.op = "unlock" => locks' = Del(locks, k)
                  /\ res'.op = "extend" =>
                        locks' = [locks EXCEPT ![k] = [owner |-> p, ttl |-> res'.ttl]]
             ELSE /\ res'.status = "not_held"
                  /\ locks' = locks]_vars

\* a holder that had won the key finds it expired and won by another: its
\* Unlock answered ErrLockNotHeld and the other's lock is in place
C14_Witness ==
    /\ res.op = "unlock"
    /\ res.status = "not_held"
    /\ res.won
    /\ res.key \in DOMAIN locks
    /\ locks[res.key].owner # res.owner

\* request p is between its successful Lock and the matching Unlock: merge,
\* fastUpload, cancel and delete take the lock in their first step, init
\* after its tombstone check and MS probe
InCritical(p) ==
    /\ p \in DOMAIN procs
    /\ IF procs[p].op = "init"
       THEN procs[p].pc \in {"tx", "ctins", "ucfind", "ucins", "ucupd", "commit", "list", "unlock"}
       ELSE procs[p].op \in {"merge", "fast", "cancel", "delete"}

\* C15: for each operation type and each (user, hash) no two requests are
\* inside their critical section (between a successful Lock and the matching
\* Unlock) at the same time, whenever the lock TTL expires.
C15_MutualExclusion ==
    \A p, q \in ProcIds :
        (/\ p # q
         /\ InCritical(p)
         /\ InCritical(q)
         /\ procs[p].op = procs[q].op
         /\ procs[p].user = procs[q].user
         /\ procs[p].hash = procs[q].hash) => FALSE

\* the outcome of a merge of (u, h) that took effect: UserContent COMPLETED,
\* completed tombstone, blob and FileMeta present
MergedOutcome(u, h) ==
    /\ HasRow(u, h, COMPLETED)
    /\ HasTombstoneIn(tombstones, u, h, "completed")
    /\ h \in DOMAIN blobs
    /\ h \in DOMAIN fileMetas

\* the outcome of a cancel of (u, h) that took effect on a session with no
\* blob yet: UserContent CANCELLED, cancelled tombstone, no scratch chunk, no
\* blob and no FileMeta
CancelledOutcome(u, h) ==
    /\ HasRow(u, h, CANCELLED)
    /\ HasTombstoneIn(tombstones, u, h, "cancelled")
    /\ ChunkSet(u, h) = {}
    /\ h \notin DOMAIN blobs
    /\ h \notin DOMAIN fileMetas

\* C16: when a cancel and a merge of the open session of (user 1, h1) have run
\* together and both have returned, the stores hold one of the two consistent
\* outcomes, the merged one or the cancelled one, and no mix of them.
C16_CancelMergeRace ==
    (Quiescent /\ nops = 4) => (MergedOutcome(1, "h1") \/ CancelledOutcome(1, "h1"))

\* C17: a UserContent row that is COMPLETED stays COMPLETED through every
\* step of an init, uploadChunk, merge, cancel and fastUpload of any user; it
\* leaves COMPLETED only by being removed by delete.
C17_CompletedOnlyDeleted ==
    [][\A i \in 1..Len(userContents) :
          userContents[i].status = COMPLETED
             => \/ userContents'[i].status = COMPLETED
                \/ userContents'[i] = NoUserContent]_vars

\* C18: a UserContent row that is CANCELLED changes status only through a step
\* of init, to UPLOADING: merge and fastUpload never make it COMPLETED.
C18_CancelledOnlyInit ==
    [][\A i \in 1..Len(userContents) :
          (/\ userContents[i].status = CANCELLED
           /\ userContents'[i].status # CANCELLED
           /\ userContents'[i] # NoUserContent)
             => /\ \E p \in DOMAIN procs : procs[p].op = "init" /\ Stepped(p)
                /\ userContents'[i].status = UPLOADING]_vars

\* the digest a client computes over the whole file before init: the names of
\* Hashes stand for MD5 digests, "h1" for the digest of <<1>>; every other
\* byte string has a digest that is no name of Hashes
Md5(bytes) == IF bytes = <<1>> THEN "h1" ELSE "other"

\* C19: whenever the blob base/h exists its content hashes to h, whatever
\* uploadChunk and merge calls with whatever payloads came before; so a blob
\* is never replaced by different bytes either.
C19_ContentAddressing == \A h \in DOMAIN blobs : Md5(blobs[h]) = h

\* C20: in every quiescent state a FileMeta(h) row exists iff BS holds base/h,
\* also after a merge whose MS transaction failed while FileMeta(h) existed
\* for another user and after a delete whose MS transaction failed to commit
\* once the refCount had reached 0.
C20_FileMetaBlobAgreement ==
    Quiescent => \A h \in Hashes : (h \in DOMAIN fileMetas) <=> FileExists(h)

\* C21: a user who completes the same hash more than once adds at most 1 to
\* the refCount: a merge or fastUpload by a user who already holds a COMPLETED
\* UserContent of the hash leaves FileMeta(hash).refCount as it was, so the
\* refCount never exceeds the number of distinct users holding such a row.
C21_OneReferencePerUser ==
    (/\ Alone("merge") \/ Alone("fast")
     /\ HasRowIn(res.pre.userContents, res.user, res.hash, COMPLETED)
     /\ RefCountIn(res.pre.fileMetas, res.hash) >= 1)
    => /\ res.hash \in DOMAIN fileMetas
       /\ RefCount(res.hash) <= RefCountIn(res.pre.fileMetas, res.hash)

\* C22: calling delete(user, hash) twice in a row leaves MS and BS as calling
\* it once: the second call removes no row, does not change
\* FileMeta(hash).refCount and deletes no blob.
C22_DeleteIdempotent ==
    (/\ Alone("delete")
     /\ res.fault = "none"
     /\ res.prev.op = "delete"
     /\ res.prev.status = "deleted"
     /\ res.prev.user = res.user
     /\ res.prev.hash = res.hash)
    => <<contents, userContents, fileMetas, blobs>>
         = <<res.pre.contents, res.pre.userContents, res.pre.fileMetas, res.pre.blobs>>

\* C23: for a stored blob of size S and 0 <= a <= b < S, getFileRange(h, a, b)
\* yields exactly the bytes at offsets a..b of the full getFile(h) stream, in
\* order, and the reported range length is b - a + 1.
C23_RangeRoundTrip ==
    (/\ Alone("download")
     /\ res.status = "partial"
     /\ 0 <= res.rangeStart
     /\ res.rangeStart <= res.rangeEnd
     /\ res.rangeEnd < Len(GetFile(res.pre.blobs, res.hash)))
    => LET a == res.rangeStart
           b == res.rangeEnd
           full == GetFile(res.pre.blobs, res.hash)
       IN /\ Len(res.out) = b - a + 1
          /\ \A k \in 0..(b - a) : res.out[k + 1] = full[a + k + 1]
          /\ res.out = GetFileRange(res.pre.blobs, res.hash, a, b)
          /\ res.rangeLength = b - a + 1

\* a range that is neither the head nor the whole of a two-byte blob was served
C23_Witness ==
    /\ Alone("download")
    /\ res.status = "partial"
    /\ res.rangeStart = 1
    /\ res.rangeEnd = 1
    /\ Len(res.pre.blobs[res.hash]) = 2
    /\ res.out = <<res.pre.blobs[res.hash][2]>>

\* a download of (u, h) arrives in this step
DownloadArrives(u, h) ==
    /\ nops' = nops + 1
    /\ \/ res'.op = "download" /\ res'.user = u /\ res'.hash = h
       \/ \E p \in (DOMAIN procs') \ (DOMAIN procs) :
             procs'[p].op = "download" /\ procs'[p].user = u /\ procs'[p].hash = h

\* C24: download(user, hash) goes on to FileMeta and BS only if MS holds a
\* UserContent row of (user, hash); for a user with no such row it fails with
\* the not-found-or-forbidden error and reads nothing from BS, whether or not
\* other users hold the blob.
C24_DownloadAuthorization ==
    [][\A u \in Users, h \in Hashes :
          DownloadArrives(u, h) =>
              IF \E i \in 1..Len(userContents) :
                    userContents[i].user = u /\ userContents[i].hash = h
              THEN res'.op # "download"
              ELSE /\ res'.op = "download"
                   /\ res'.status = "not_found_or_denied"
                   /\ res'.out = <<>>
                   /\ ~res'.bsRead
                   /\ UNCHANGED bsVars]_vars

\* a user with no row of the hash was refused while the blob and the FileMeta
\* of the hash are there and another user holds a COMPLETED row of it
C24_Witness ==
    /\ Answered("download")
    /\ res.status = "not_found_or_denied"
    /\ res.hash \in DOMAIN blobs
    /\ res.hash \in DOMAIN fileMetas
    /\ \E i \in 1..Len(userContents) :
          /\ userContents[i].user # res.user
          /\ userContents[i].hash = res.hash
          /\ userContents[i].status = COMPLETED

\* the Content rows of (owner, hash)
ContentsOf(u, h) == {i \in 1..Len(contents) : contents[i].owner = u /\ contents[i].hash = h}

\* C25: whatever number of concurrent or repeated init calls of a user for a
\* hash ran, MS holds at most one Content of (owner, hash) and at most one
\* UserContent of (user, that content); once a call has gone through the
\* upsert there is exactly one of each, and every such call returns the id of
\* that Content.
C25_InitUniqueness ==
    /\ \A u \in Users, h \in Hashes :
          /\ Cardinality(ContentsOf(u, h)) <= 1
          /\ \A c \in ContentsOf(u, h) : Cardinality(RowsOf(userContents, u, c)) <= 1
    /\ \A p \in DOMAIN procs :
          (/\ procs[p].op = "init"
           /\ procs[p].pc \in {"list", "unlock"}
           /\ procs[p].status # "db_failed")
          => /\ ContentsOf(procs[p].user, procs[p].hash) = {procs[p].cid}
             /\ Cardinality(RowsOf(userContents, procs[p].user, procs[p].cid)) = 1
    /\ (Answered("init") /\ res.status \in {"new", "resumable"})
          => /\ ContentsOf(res.user, res.hash) = {res.cid}
             /\ Cardinality(RowsOf(userContents, res.user, res.cid)) = 1

\* the second of two init calls that were in flight together has gone through
\* the upsert after the first and returns the Content the first created
C25_Witness ==
    /\ Answered("init")
    /\ res.status = "new"
    /\ res.tok = 2
    /\ nops = 2
    /\ ~res.solo
    /\ ~res.newContent
    /\ ~res.newRow
    /\ ContentsOf(res.user, res.hash) = {res.cid}

\* C26: an init that does not answer fast_upload answers resumable iff the
\* scratch chunk set of (user, hash) on BS is non-empty and new otherwise; when
\* resumable, uploadedChunks is that chunk set in ascending order, whatever
\* the CS chunk accelerator holds.
C26_InitStatusAndResumeList ==
    (Alone("init") /\ res.status \notin {"fast_upload", "lock_failed"})
    => LET cs == ChunkSetOf(res.pre.scratch, res.user, res.hash)
       IN /\ res.status = IF cs # {} THEN "resumable" ELSE "new"
          /\ res.out = SetToSortedSeq(cs)
          /\ \A i \in 1..(Len(res.out) - 1) : res.out[i] < res.out[i + 1]

\* an init answered new on an empty scratch while the CS accelerator still
\* lists chunks of the session
C26_Witness ==
    /\ Alone("init")
    /\ res.status = "new"
    /\ ChunkSetOf(res.pre.scratch, res.user, res.hash) = {}
    /\ <<res.user, res.hash>> \in DOMAIN res.pre.csChunks
    /\ res.pre.csChunks[<<res.user, res.hash>>] # {}

\* C27: the final name base/hash is absent or holds the complete
\* concatenation of one session, also while merges of different users for the
\* hash run together: no merge that is still copying chunks writes into the
\* file at the final name, bytes being written are under the .tmp name only.
C27_NoPartialBlob ==
    \A p \in DOMAIN procs :
        ~(procs[p].op = "merge" /\ procs[p].pc \in {"open", "copy"} /\ procs[p].fdAt = "blob")

\* C28: chunk publish is all-or-nothing under concurrent uploadChunk calls for
\* one (user, hash, index): a file {index}.part that becomes visible holds the
\* complete payload of one of the callers, and the content of a visible file
\* never changes afterwards.
C28_ChunkPublishAllOrNothing ==
    [][\A k \in DOMAIN scratch' :
          IF k \in DOMAIN scratch
          THEN scratch'[k] = scratch[k]
          ELSE \E p \in DOMAIN procs :
                  /\ procs[p].op = "chunk"
                  /\ <<procs[p].user, procs[p].hash, procs[p].idx>> = k
                  /\ scratch'[k] = procs[p].payload]_vars

\* C29: once cancel(user, hash) has returned with its tombstone written, the
\* scratch chunk set of (user, hash) is empty and stays empty, whatever the
\* uploadChunk requests at work do.
C29_NoStragglerChunks ==
    \A u \in Users, h \in Hashes :
        (/\ HasTombstoneIn(tombstones, u, h, "cancelled")
         /\ \A q \in DOMAIN procs :
               ~(procs[q].op = "cancel" /\ procs[q].user = u /\ procs[q].hash = h))
        => ChunkSet(u, h) = {}

\* the error answers of merge: lock not acquired, missing chunks, BS merge
\* failure, MS failure
MergeErrors == {"lock_failed", "missing_chunks", "merge_failed", "db_failed"}

\* a UserContent row of (u, cid) in `ucs` has the status `st`
RowStatus(ucs, u, cid, st) ==
    \E i \in 1..Len(ucs) : ucs[i].user = u /\ ucs[i].cid = cid /\ ucs[i].status = st

\* a merge that answers an error leaves the rows of MS and the tombstones as
\* they were
FailedMergeLeavesSession ==
    (Alone("merge") /\ res.status \in MergeErrors)
    => <<userContents, fileMetas, tombstones>>
         = <<res.pre.userContents, res.pre.fileMetas, res.pre.tombstones>>

\* a merge that does not get its lock changes nothing
RefusedMergeLeavesSession ==
    (nops' = nops + 1 /\ res'.op = "merge" /\ res'.status = "lock_failed")
    => UNCHANGED <<msVars, tombstones, csChunks, bsVars>>

\* the merge answered last followed a failed merge of its (user, hash)
AfterFailedMerge ==
    /\ res.prev.op = "merge"
    /\ res.prev.status \in MergeErrors
    /\ res.prev.user = res.user
    /\ res.prev.hash = res.hash

\* C30 (as stated): a merge that answers an error leaves the UserContent
\* status, the refCount and the tombstones as they were, and the merge(total),
\* total >= 1, that follows a failed one succeeds when every chunk of
\* 0..total-1 is on BS.
C30_FailedMergeLeavesSessionOpen ==
    [][/\ FailedMergeLeavesSession'
       /\ RefusedMergeLeavesSession
       /\ (/\ Alone("merge")
           /\ res.fault = "none"
           /\ res.status # "lock_failed"
           /\ res.total >= 1
           /\ AfterFailedMerge
           /\ (0..(res.total - 1)) \subseteq ChunkSetOf(res.pre.scratch, res.user, res.hash))'
             => (res.status = "completed")']_vars

\* C30 (amended): a merge that answers an error leaves the UserContent status,
\* the refCount and the tombstones as they were, and a merge(total), after a
\* failed one or not, succeeds and completes the row when no store fails, it
\* gets its lock, total >= 1 and the scratch chunk set is exactly {0..total-1}.
C30_FailedMergeThenExactSet ==
    [][/\ FailedMergeLeavesSession'
       /\ RefusedMergeLeavesSession
       /\ (/\ Alone("merge")
           /\ res.fault = "none"
           /\ res.status # "lock_failed"
           /\ res.total >= 1
           /\ ChunkSetOf(res.pre.scratch, res.user, res.hash) = 0..(res.total - 1))'
             => (/\ res.status = "completed"
                 /\ RowStatus(res.pre.userContents, res.user, res.cid, UPLOADING)
                       => RowStatus(userContents, res.user, res.cid, COMPLETED))']_vars

\* a merge that followed a merge failed on a missing chunk has completed the
\* session: the row was still UPLOADING, with no FileMeta and no tombstone
C30_Witness ==
    /\ Alone("merge")
    /\ AfterFailedMerge
    /\ res.prev.status = "missing_chunks"
    /\ res.status = "completed"
    /\ RowStatus(res.pre.userContents, res.user, res.cid, UPLOADING)
    /\ RefCountIn(res.pre.fileMetas, res.hash) = 0
    /\ <<res.user, res.hash>> \notin DOMAIN res.pre.tombstones
    /\ RowStatus(userContents, res.user, res.cid, COMPLETED)

\* C31: in every quiescent state a completed tombstone of (user, hash) implies
\* that the user's UserContent rows of the hash are COMPLETED, and a cancelled
\* tombstone implies that none of them is COMPLETED.
C31_TombstonesAgreeWithMS ==
    Quiescent =>
        \A k \in DOMAIN tombstones :
            \A i \in 1..Len(userContents) :
                (userContents[i].user = k[1] /\ userContents[i].hash = k[2])
                    => /\ tombstones[k].status = "completed"
                            => userContents[i].status = COMPLETED
                       /\ tombstones[k].status = "cancelled"
                            => userContents[i].status # COMPLETED

\* C32: download(user, hash) returns bytes only if the user holds a COMPLETED
\* UserContent row of the hash: a user with no COMPLETED row of it, who never
\* merged it (no tombstone of (user, hash)), gets no byte of the blob that
\* another user uploaded.
C32_DownloadNeedsCompleted ==
    (/\ Alone("download")
     /\ ~HasRowIn(res.pre.userContents, res.user, res.hash, COMPLETED)
     /\ <<res.user, res.hash>> \notin DOMAIN res.pre.tombstones)
    => /\ res.out = <<>>
       /\ res.status \notin {"full", "partial"}

\* the user's UserContent row `cid` is a row of another hash than `h`
RowOfOtherHash(ucs, u, cid, h) ==
    \E i \in 1..Len(ucs) : ucs[i].user = u /\ ucs[i].cid = cid /\ ucs[i].hash # h

\* C33: a merge or a cancel of (user, hash) whose contentId names a row of
\* another hash of the same user changes no UserContent row and writes no
\* tombstone.
C33_ContentIdHashBinding ==
    (/\ Alone("merge") \/ Alone("cancel")
     /\ RowOfOtherHash(res.pre.userContents, res.user, res.cid, res.hash))
    => <<userContents, tombstones>> = <<res.pre.userContents, res.pre.tombstones>>

\* C34: a fastUpload of a hash that has no FileMeta row at that moment fails
\* and leaves MS and CS unchanged: no UserContent becomes COMPLETED and no
\* completed tombstone is written.
C34_FastUploadNeedsFileMeta ==
    (Alone("fast") /\ res.status # "lock_failed" /\ res.hash \notin DOMAIN res.pre.fileMetas)
    => /\ res.status # "fast_upload_completed"
       /\ <<contents, userContents, fileMetas>>
            = <<res.pre.contents, res.pre.userContents, res.pre.fileMetas>>
       /\ <<tombstones, csChunks>> = <<res.pre.tombstones, res.pre.csChunks>>

\* request `p`, which carries an empty body and will fail in WriteChunk, takes
\* a step of WriteChunk
EmptyChunkStep(p) ==
    /\ p \in DOMAIN procs
    /\ procs[p].op = "chunk"
    /\ procs[p].payload = <<>>
    /\ procs[p].pc \in {"mkdir", "create", "copy"}
    /\ Stepped(p)

\* another request than `p` has the .tmp file `k` open and is writing it
WrittenByOther(p, k) ==
    \E q \in DOMAIN procs \ {p} :
        /\ procs[q].op = "chunk"
        /\ procs[q].pc = "copy"
        /\ procs[q].fdAt = "ptmp"
        /\ <<procs[q].user, procs[q].hash, procs[q].idx>> = k

\* C35: an uploadChunk that fails because its payload is empty has no effect:
\* none of its steps changes the published chunks, the blobs, MS, the CS chunk
\* sets or the tombstones, nor a .tmp file of the scratch area that another
\* request is writing.
C35_RejectedChunkNoEffect ==
    [][\A p \in ProcIds :
          EmptyChunkStep(p) =>
              /\ UNCHANGED <<msVars, csVars, scratch, blobs>>
              /\ \A k \in DOMAIN chunkTmp :
                    WrittenByOther(p, k)
                        => k \in DOMAIN chunkTmp' /\ chunkTmp'[k] = chunkTmp[k]]_vars

\* the MS probe of init hits: a COMPLETED row of (u, h), a FileMeta with a
\* path, the blob on BS
MsProbeHits(st, u, h) ==
    LET row == GetUserContentByHash(st.userContents, u, h)
    IN /\ row # 0
       /\ st.userContents[row].status = COMPLETED
       /\ GetFileMeta(st.fileMetas, h)
       /\ st.fileMetas[h].path # ""
       /\ h \in DOMAIN st.blobs

\* the tombstone read of this init failed: Exists, or HGet on a key that is there
TombstoneReadFailed(st, u, h, fault) ==
    \/ fault = "cs_check"
    \/ fault = "cs_hget" /\ <<u, h>> \in DOMAIN st.tombstones

\* C36: an init whose tombstone read fails behaves as if there were no
\* tombstone: it answers fast_upload with the row's contentId when the MS probe
\* hits, and goes on to the lock and the upsert otherwise.
C36_InitDegradesOnReadFailure ==
    (Alone("init") /\ TombstoneReadFailed(res.pre, res.user, res.hash, res.fault))
    => IF MsProbeHits(res.pre, res.user, res.hash)
       THEN /\ res.status = "fast_upload"
            /\ res.cid = res.pre.userContents[GetUserContentByHash(res.pre.userContents,
                                                                   res.user, res.hash)].cid
       ELSE res.status \in {"new", "resumable", "lock_failed"}

\* C37: reconciliation at startup writes, for the one UserContent row of
\* (user, hash): a completed tombstone without TTL when the row is COMPLETED
\* and FileMeta(hash) exists; a cancelled tombstone with TTL when the row is
\* CANCELLED or UPLOADING; nothing when the row is COMPLETED without FileMeta.
\* A written tombstone carries the row's contentId.
C37_StartupEmissionRule ==
    Answered("startup") =>
        \A u \in Users, h \in Hashes :
            \A i \in RowsOfHash(res.pre.userContents, u, h) :
                RowsOfHash(res.pre.userContents, u, h) = {i} =>
                    LET r == res.pre.userContents[i]
                        k == <<u, h>>
                    IN IF r.status = COMPLETED /\ h \in DOMAIN res.pre.fileMetas
                       THEN /\ k \in DOMAIN tombstones
                            /\ tombstones[k] = [cid |-> r.cid, status |-> "completed",
                                                ttl |-> FALSE]
                       ELSE IF r.status \in {CANCELLED, UPLOADING}
                       THEN /\ k \in DOMAIN tombstones
                            /\ tombstones[k] = [cid |-> r.cid, status |-> "cancelled",
                                                ttl |-> TRUE]
                       ELSE /\ k \in DOMAIN tombstones <=> k \in DOMAIN res.pre.tombstones
                            /\ k \in DOMAIN tombstones => tombstones[k] = res.pre.tombstones[k]

\* C38: every FileMeta row of a committed state has refCount >= 1, and a delete
\* that brings the refCount of FileMeta(hash) to 0 removes the row in the same
\* transaction.
C38_RefCountPositive ==
    /\ \A h \in DOMAIN fileMetas : fileMetas[h].refCount >= 1
    /\ (/\ Alone("delete")
        /\ res.status = "deleted"
        /\ res.hash \in DOMAIN res.pre.fileMetas
        /\ res.pre.fileMetas[res.hash].refCount <= 1)
       => res.hash \notin DOMAIN fileMetas

\* a delete has brought the refCount of a FileMeta that a merge had created
\* from 1 to 0 and the row is gone
C38_Witness ==
    /\ Alone("delete")
    /\ res.status = "deleted"
    /\ res.hash \in DOMAIN res.pre.fileMetas
    /\ res.pre.fileMetas[res.hash].refCount = 1
    /\ res.hash \in DOMAIN res.pre.blobs
    /\ res.hash \notin DOMAIN fileMetas

\* start and end of a header after clamping to the file size S
ClampedStart(hdr, S) ==
    LET a == IF hdr.kind = "suffix" THEN S - hdr.last ELSE hdr.first
    IN IF a < 0 THEN 0 ELSE a

ClampedEnd(hdr, S) ==
    LET b == IF hdr.kind = "range" THEN hdr.last ELSE S - 1
    IN IF b >= S THEN S - 1 ELSE b

\* C39: for a header bytes=a-b, bytes=a- or bytes=-n and a file size S >= 0, a
\* parse that returns no error gives 0 <= start <= end <= S-1 and a length
\* between 1 and S; whenever the clamped values give start > end, as on every
\* empty file, the parse returns the invalid-range error.
C39_RangeParsingBounds ==
    (res.op = "range" /\ res.range.kind \in {"range", "from", "suffix"})
        => /\ res.status = "partial"
                => /\ 0 <= res.rangeStart
                   /\ res.rangeStart <= res.rangeEnd
                   /\ res.rangeEnd <= res.size - 1
                   /\ 1 <= res.rangeLength
                   /\ res.rangeLength <= res.size
                   /\ res.rangeLength = res.rangeEnd - res.rangeStart + 1
           /\ ClampedStart(res.range, res.size) > ClampedEnd(res.range, res.size)
                => res.status = "range_invalid"
           /\ res.size = 0 => res.status = "range_invalid"

\* bytes=a-b with b beyond the end of the file was parsed and the end clamped
\* to the last byte
C39_Witness ==
    /\ res.op = "range"
    /\ res.status = "partial"
    /\ res.range.kind = "range"
    /\ res.range.last >= res.size
    /\ res.rangeEnd = res.size - 1
    /\ res.rangeStart > 0

\* what a call of Lock that has returned satisfies
LockReturned(p) ==
    LET r == procs[p]
    IN /\ r.attempts <= MaxRetries
       /\ r.pc = "done" =>
             /\ r.result \in {"nil", "ErrLockFailed", "ErrLockTimeout", "cs_error"}
             /\ r.result = "nil" => r.held
             /\ r.result = "ErrLockFailed" => r.attempts = MaxRetries /\ r.i = MaxRetries

\* C40: a blocking Lock call always returns, after at most maxRetries
\* attempts: nil when an attempt won the key (which then holds the caller's
\* token), ErrLockFailed when every attempt found the key held, ErrLockTimeout
\* when the context was done before an attempt, or the CS error of an attempt.
C40_LockTerminates ==
    /\ [](\A p \in DOMAIN procs : LockReturned(p))
    /\ \A p \in ProcIds :
          (p \in DOMAIN procs) ~> (p \in DOMAIN procs /\ procs[p].pc = "done")

\* a call found the key held at every attempt and returned ErrLockFailed while
\* the other caller holds the key
C40_Witness ==
    \E p \in DOMAIN procs :
        /\ procs[p].pc = "done"
        /\ procs[p].result = "ErrLockFailed"
        /\ procs[p].attempts = MaxRetries
        /\ procs[p].key \in DOMAIN locks
        /\ locks[procs[p].key].owner # p

====
